---- MODULE Spec2Model ----
(***************************************************************************)
(* Model of the asynchronous prefetch queue of ascii-dream                 *)
(* (src/ascii_dream/queue.py): the ImageQueue object, its producer task,   *)
(* the retry/fallback generation step and the consumer-side operations.   *)
(*                                                                         *)
(* The producer is an asyncio task: it runs without interruption from one  *)
(* suspension point (an await that really suspends) to the next, so every  *)
(* action below is one such run.  The suspension points are the generation *)
(* call, the backoff sleep, the 1-second pause of the outer handler and    *)
(* queue.put on a full queue.                                              *)
(***************************************************************************)
EXTENDS Integers, Sequences, FiniteSets, TLC

\* ---------------------------------------------------------------- bounds
MaxDepth == 2            \* queue_depth ranges over 1..MaxDepth
MaxCycle == 3            \* frames_per_cycle ranges over 1..MaxCycle
MaxCalls == 6            \* generation calls made in one run
MaxRetriesArg == 3       \* max_retries passed to a direct call, 1..MaxRetriesArg
MaxStarts == 2           \* calls of start() on one queue

\* ------------------------------------------------------ program constants
DefaultMaxRetries == 2
NoSeed == "None"
FallbackPrompt == "abstract colorful shapes"
FallbackLabel == "abstract colorful shapes [fallback]"
ExhaustedPrompt == "abstract colorful patterns"

\* An iterator that never raises StopIteration.
NoLimit == -1
IterLens == {1, 2, NoLimit}
Seeds == {NoSeed, "7"}

VARIABLES
    queue_depth,       \* self.queue_depth, the maxsize of self.queue
    frames_per_cycle,  \* self.frames_per_cycle
    queue,             \* self.queue: the frames held, oldest first
    running,           \* self._running
    frame_index,       \* self._frame_index
    iterLen,           \* number of items the prompt iterator yields
    iterPos,           \* number of items drawn from self.prompt_iterator
    pc,                \* position of the task running the producer / retry
    prompt_buffer,     \* _producer local
    cycle_count,       \* _producer local
    prompt,            \* _generate_with_retry argument
    seed,              \* _generate_with_retry argument
    max_retries,       \* _generate_with_retry argument
    attempt,           \* _generate_with_retry loop variable
    image,             \* the tuple returned by _generate_with_retry
    caller,            \* who awaits _generate_with_retry
    calls,             \* log of generator.generate calls
    putLog,            \* log of the frames inserted into the queue
    delivered,         \* log of the frames returned by get()
    consumerPc,        \* position of the task calling get()
    stopPc,            \* position of the task calling stop()
    prefillPc,         \* position of the task calling prefill()
    \* the CLI session (cli/main.py)
    cliPc,             \* position of async_main
    displayPc,         \* position of the run_display_loop task
    live,              \* display.live_display is not None
    shown,             \* what the terminal shows
    \* a queue whose start() may be called more than once
    ptasks,            \* the producer tasks created by start(), oldest first
    \* the thread-hosted producer of ASCIIDreamApp (tui_app.py, tui.py)
    tui,               \* the screen the app is on, "off" without an app
    generator,         \* self.generator
    tqueues,           \* every queue.Queue created so far, as its contents
    tevents,           \* every threading.Event created so far, TRUE when set
    tsession,          \* self.frame_queue and self.stop_generation are the
                       \* tsession-th queue and event; 0 when they are None
    workers,           \* every worker thread started so far, oldest first
    tIterPos,          \* items drawn from self.prompt_iterator
    tget,              \* the call of get_next_frame in progress
    current_frame,     \* DreamGenerationScreen.current_frame
    is_paused,         \* DreamGenerationScreen.is_paused
    \* fake clock
    slept,             \* log of the backoff sleeps of _generate_with_retry
    \* prompt_evolution.py
    evolver,           \* the generator object get_evolver returned
    \* ASCIIDreamApp settings
    tsettings          \* config: self.config; used: what _initialize_generation set

vars == <<queue_depth, frames_per_cycle, queue, running, frame_index, iterLen,
          iterPos, pc, prompt_buffer, cycle_count, prompt, seed, max_retries,
          attempt, image, caller, calls, putLog, delivered, consumerPc,
          stopPc, prefillPc, cliPc, displayPc, live, shown, ptasks,
          tui, generator, tqueues, tevents, tsession, workers, tIterPos, tget,
          current_frame, is_paused, slept, evolver, tsettings>>

cliVars == <<cliPc, displayPc, live, shown>>
tuiVars == <<tui, generator, tqueues, tevents, tsession, workers, tIterPos, tget,
             current_frame, is_paused>>
hostVars == <<cliVars, ptasks, tuiVars>>

queueVars == <<queue, putLog, frame_index>>
producerLocals == <<prompt_buffer, cycle_count, iterPos, prompt, attempt>>
configVars == <<queue_depth, frames_per_cycle, iterLen, seed, max_retries, caller>>
clientVars == <<delivered, consumerPc, stopPc, prefillPc>>

NoFrame == [prompt |-> "", image |-> 0]

\* ------------------------------------------------------ prompt iterator
\* The k-th item (0-based) of the prompt iterator.
Item(k) == "p" \o ToString(k)

Min(a, b) == IF a < b THEN a ELSE b

\* Number of items next() still yields out of n requested, from position pos.
Available(pos, n) == IF iterLen = NoLimit THEN n
                     ELSE IF iterLen - pos < 0 THEN 0 ELSE Min(n, iterLen - pos)

\* A refill that fills the missing slot with the prompt of the retry fallback.
RefillShapes(pos) ==
    LET k == Available(pos, frames_per_cycle)
        drawn == [i \in 1..k |-> Item(pos + i - 1)]
        buf == IF k < frames_per_cycle THEN Append(drawn, FallbackPrompt) ELSE drawn
    IN SubSeq(buf, 1, Min(Len(buf), frames_per_cycle))

\* The buffer built by the refill loop of _producer.
Refill(pos) ==
    LET k == Available(pos, frames_per_cycle)
        drawn == [i \in 1..k |-> Item(pos + i - 1)]
        buf == IF k < frames_per_cycle THEN Append(drawn, ExhaustedPrompt) ELSE drawn
    IN SubSeq(buf, 1, Min(Len(buf), frames_per_cycle))

\* ------------------------------------------------------------- the queue
\* put() that suspends one frame too late.
FullLate == queue_depth > 0 /\ Len(queue) > queue_depth

Full == queue_depth > 0 /\ Len(queue) >= queue_depth

\* A queue that inserts at the front.
EnqueueFront(q, f) == <<f>> \o q

Enqueue(q, f) == Append(q, f)

NeedsRefill == cycle_count = 0 \/ frames_per_cycle > 1

\* One entry of the call log: a call of generator.generate made by attempt a
\* of the retry loop, or (fb) by its fallback branch.
CallRec(p, s, a, fb) ==
    [prompt |-> p, seed |-> s, attempt |-> a, fallback |-> fb, result |-> "pending"]

SetResult(r) == [calls EXCEPT ![Len(calls)].result = r]

\* Room in the call log for one more producer iteration.
Budget == Len(calls) + max_retries + 1 <= MaxCalls

\* ------------------------------------------------------- initial states
TypeOK ==
    /\ queue_depth \in 1..MaxDepth
    /\ frames_per_cycle \in 1..MaxCycle
    /\ Len(queue) \in 0..(MaxDepth + 1)
    /\ running \in BOOLEAN
    /\ pc \in {"idle", "created", "generating", "backoff", "fallback", "pause",
               "putting", "done", "ready", "returned", "raised"}
    /\ caller \in {"producer", "direct", "none"}
    /\ consumerPc \in {"idle", "getting"}
    /\ stopPc \in {"idle", "awaiting", "returned"}
    /\ prefillPc \in {"idle", "sleeping", "returned"}

\* No prompt sequencer of prompt_evolution.py is under observation.
NoEvolver ==
    [pc |-> "none", journey |-> "", start_prompt |-> "", custom |-> FALSE,
     n |-> 0, idx |-> 0, out |-> "", err |-> ""]

\* ImageQueue.__init__: the state of a constructed queue whose producer has not
\* been started.
InitCommon ==
    /\ queue = <<>>
    /\ running = FALSE
    /\ frame_index = 0
    /\ iterPos = 0
    /\ prompt_buffer = <<>>
    /\ cycle_count = 0
    /\ attempt = 0
    /\ image = NoFrame
    /\ calls = <<>>
    /\ slept = <<>>
    /\ putLog = <<>>
    /\ delivered = <<>>
    /\ consumerPc = "idle"
    /\ stopPc = "idle"
    /\ prefillPc = "idle"

\* ASCIIDreamApp.__init__: self.config.
DefaultConfig ==
    [prompt |-> "", aspect_ratio |-> "1:1", fast |-> TRUE, journey |-> "abstract"]

\* self.prompt_iterator is None: _initialize_generation has not run.
NoGeneration ==
    [init |-> FALSE, journey |-> "", custom |-> FALSE, width |-> 0, height |-> 0]

\* get_dimensions_for_aspect_ratio: <<width, height>>.
Dimensions(aspect_ratio, fast) ==
    IF aspect_ratio = "16:9" THEN (IF fast THEN <<384, 216>> ELSE <<768, 432>>)
    ELSE IF aspect_ratio = "9:16" THEN (IF fast THEN <<216, 384>> ELSE <<432, 768>>)
    ELSE IF aspect_ratio = "4:3" THEN (IF fast THEN <<288, 216>> ELSE <<576, 432>>)
    ELSE IF aspect_ratio = "3:4" THEN (IF fast THEN <<216, 288>> ELSE <<432, 576>>)
    ELSE (IF fast THEN <<256, 256>> ELSE <<512, 512>>)

\* _initialize_generation: the image size and the prompt sequencer made from
\* the configuration.
InitializeGeneration(config) ==
    [init |-> TRUE,
     journey |-> config.journey,
     custom |-> config.prompt # "",
     width |-> Dimensions(config.aspect_ratio, config.fast)[1],
     height |-> Dimensions(config.aspect_ratio, config.fast)[2]]

\* No ASCIIDreamApp exists.
TuiOff ==
    /\ tsettings = [config |-> DefaultConfig, used |-> NoGeneration]
    /\ tui = "off"
    /\ generator = "None"
    /\ tqueues = <<>>
    /\ tevents = <<>>
    /\ tsession = 0
    /\ workers = <<>>
    /\ tIterPos = 0
    /\ tget = [pc |-> "idle", q |-> 0]
    /\ current_frame = NoFrame
    /\ is_paused = FALSE

\* No CLI session is attached to the queue.
CliOff ==
    /\ cliPc = "off"
    /\ displayPc = "none"
    /\ live = FALSE
    /\ shown = NoFrame
    /\ ptasks = <<>>

Init ==
    /\ InitCommon
    /\ evolver = NoEvolver
    /\ CliOff
    /\ TuiOff
    /\ queue_depth \in 1..MaxDepth
    /\ frames_per_cycle \in 1..MaxCycle
    /\ iterLen \in IterLens
    /\ caller = "producer"
    /\ pc = "idle"
    /\ prompt = ""
    /\ seed = NoSeed
    /\ max_retries = DefaultMaxRetries

\* ------------------------------------------------------------ producer
\* A loop head that never tests the running flag.
LoopHeadDeaf(fi, log) ==
    LET buf == IF NeedsRefill THEN Refill(iterPos) ELSE prompt_buffer
        pos == IF NeedsRefill
               THEN iterPos + Available(iterPos, frames_per_cycle)
               ELSE iterPos
        p == buf[(fi % Len(buf)) + 1]
    IN /\ prompt_buffer' = buf
       /\ iterPos' = pos
       /\ cycle_count' = IF NeedsRefill THEN 1 ELSE cycle_count
       /\ prompt' = p
       /\ attempt' = 0
       /\ calls' = Append(log, CallRec(p, seed, 0, FALSE))
       /\ pc' = "generating"

\* The head of the producer loop, up to the first generation call of the
\* iteration: the while test, the refill of the prompt buffer, the prompt
\* lookup and the call of attempt 0.  fi is self._frame_index and log the call
\* log at this point.
LoopHead(fi, log) ==
    IF ~running
    THEN /\ pc' = "done"
         /\ calls' = log
         /\ UNCHANGED producerLocals
    ELSE LET buf == IF NeedsRefill THEN Refill(iterPos) ELSE prompt_buffer
             pos == IF NeedsRefill
                    THEN iterPos + Available(iterPos, frames_per_cycle)
                    ELSE iterPos
             p == buf[(fi % Len(buf)) + 1]
         IN /\ prompt_buffer' = buf
            /\ iterPos' = pos
            /\ cycle_count' = IF NeedsRefill THEN 1 ELSE cycle_count
            /\ prompt' = p
            /\ attempt' = 0
            /\ calls' = Append(log, CallRec(p, seed, 0, FALSE))
            /\ pc' = "generating"

\* A cursor that counts on without wrapping.
NextIndexUnwrapped(fi, buf) == fi + 1

\* self._frame_index after a frame was inserted:
\* (self._frame_index + 1) % len(prompt_buffer).
NextIndex(fi, buf) == (fi + 1) % Len(buf)

\* The rest of a producer iteration once _generate_with_retry has returned
\* frame f: queue.put, the cursor update and the next loop head.
Publish(f, log) ==
    IF Full
    THEN /\ pc' = "putting"
         /\ image' = f
         /\ calls' = log
         /\ UNCHANGED <<queueVars, producerLocals>>
    ELSE /\ queue' = Enqueue(queue, f)
         /\ putLog' = Append(putLog, f)
         /\ frame_index' = NextIndex(frame_index, prompt_buffer)
         /\ image' = NoFrame
         /\ (running => Budget)
         /\ LoopHead(NextIndex(frame_index, prompt_buffer), log)

\* _generate_with_retry returns frame f to whoever awaits it.
Return(f, log) ==
    IF caller = "producer"
    THEN Publish(f, log)
    ELSE /\ pc' = "returned"
         /\ image' = f
         /\ calls' = log
         /\ UNCHANGED <<queueVars, producerLocals>>

\* A producer whose outer handler leaves the loop.
RaiseEnds(log) ==
    /\ pc' = IF caller = "producer" THEN "done" ELSE "raised"
    /\ calls' = log
    /\ UNCHANGED <<queueVars, producerLocals, image>>

\* An outer handler that moves the cursor on past the failed frame.
RaiseAdvances(log) ==
    /\ pc' = IF caller = "producer" THEN "pause" ELSE "raised"
    /\ calls' = log
    /\ frame_index' = (frame_index + 1) % Len(prompt_buffer)
    /\ UNCHANGED <<queue, putLog, producerLocals, image>>

\* An exception leaves _generate_with_retry: the producer's outer handler
\* catches it and sleeps one second; a direct caller sees it raised.
Raise(log) ==
    /\ pc' = IF caller = "producer" THEN "pause" ELSE "raised"
    /\ calls' = log
    /\ UNCHANGED <<queueVars, producerLocals, image>>

\* A retry loop that runs one attempt more.
IsFinalAttemptLate(a) == a = max_retries

IsFinalAttempt(a) == a = max_retries - 1

\* start(): sets the flag and creates the producer task.
Start ==
    /\ caller = "producer"
    /\ pc = "idle"
    /\ running' = TRUE
    /\ pc' = "created"
    /\ UNCHANGED <<queueVars, producerLocals, image, calls, configVars, slept, evolver, tsettings, hostVars, clientVars>>

\* The producer task runs for the first time.
ProducerBegin ==
    /\ pc = "created"
    /\ (running => Budget)
    /\ LoopHead(frame_index, calls)
    /\ UNCHANGED <<queueVars, image, running, configVars, slept, evolver, tsettings, hostVars, clientVars>>

\* The generation call of an attempt returns an image.
GenerateOk ==
    /\ pc = "generating"
    /\ Return([prompt |-> prompt, image |-> Len(calls)], SetResult("ok"))
    /\ UNCHANGED <<running, configVars, slept, evolver, tsettings, hostVars, clientVars>>

\* A backoff that grows by two seconds per attempt.
BackoffLinear(a) == 2 * a

\* asyncio.sleep(2**attempt): the seconds slept after failed attempt a.
BackoffSeconds(a) == 2 ^ a

\* The generation call of an attempt raises: the fallback call follows the
\* final attempt at once, a backoff sleep any other.
GenerateFail ==
    /\ pc = "generating"
    /\ IF IsFinalAttempt(attempt)
       THEN /\ calls' = Append(SetResult("fail"), CallRec(FallbackPrompt, NoSeed, attempt, TRUE))
            /\ pc' = "fallback"
            /\ UNCHANGED slept
       ELSE /\ calls' = SetResult("fail")
            /\ pc' = "backoff"
            /\ slept' = Append(slept, [attempt |-> attempt, seconds |-> BackoffSeconds(attempt)])
    /\ UNCHANGED <<queueVars, producerLocals, image, running, configVars, evolver, tsettings, hostVars, clientVars>>

\* A backoff after which the retry loop starts over at attempt 0.
BackoffDoneRestarts ==
    /\ pc = "backoff"
    /\ attempt' = 0
    /\ calls' = Append(calls, CallRec(prompt, seed, 0, FALSE))
    /\ pc' = "generating"
    /\ UNCHANGED <<queueVars, prompt_buffer, cycle_count, iterPos, prompt, image,
                   running, configVars, slept, evolver, tsettings, hostVars, clientVars>>

\* The backoff sleep ends: the next attempt is issued.
BackoffDone ==
    /\ pc = "backoff"
    /\ attempt' = attempt + 1
    /\ calls' = Append(calls, CallRec(prompt, seed, attempt + 1, FALSE))
    /\ pc' = "generating"
    /\ UNCHANGED <<queueVars, prompt_buffer, cycle_count, iterPos, prompt, image,
                   running, configVars, slept, evolver, tsettings, hostVars, clientVars>>

\* A fallback branch that loses its image and fails the iteration.
FallbackOkLost ==
    /\ pc = "fallback"
    /\ Raise(SetResult("ok"))
    /\ UNCHANGED <<running, configVars, slept, evolver, tsettings, hostVars, clientVars>>

\* The fallback generation call returns an image.
FallbackOk ==
    /\ pc = "fallback"
    /\ Return([prompt |-> FallbackLabel, image |-> Len(calls)], SetResult("ok"))
    /\ UNCHANGED <<running, configVars, slept, evolver, tsettings, hostVars, clientVars>>

\* The fallback generation call raises.
FallbackFail ==
    /\ pc = "fallback"
    /\ Raise(SetResult("fail"))
    /\ UNCHANGED <<running, configVars, slept, evolver, tsettings, hostVars, clientVars>>

\* The 1-second sleep of the outer handler ends: next loop head.
PauseDone ==
    /\ pc = "pause"
    /\ (running => Budget)
    /\ LoopHead(frame_index, calls)
    /\ UNCHANGED <<queueVars, image, running, configVars, slept, evolver, tsettings, hostVars, clientVars>>

\* The producer, suspended in queue.put, finds room.
PutResume ==
    /\ pc = "putting"
    /\ ~Full
    /\ Publish(image, calls)
    /\ UNCHANGED <<running, configVars, slept, evolver, tsettings, hostVars, clientVars>>

\* ------------------------------------------------------------ consumer
\* A get() that returns the oldest frame and leaves it in the queue.
GetPeeks ==
    /\ caller = "producer"
    /\ consumerPc = "idle"
    /\ IF queue # <<>>
       THEN /\ delivered' = Append(delivered, Head(queue))
            /\ UNCHANGED <<queue, consumerPc>>
       ELSE /\ consumerPc' = "getting"
            /\ UNCHANGED <<queue, delivered>>
    /\ UNCHANGED <<putLog, frame_index, producerLocals, pc, image, calls, running,
                   configVars, slept, evolver, tsettings, hostVars, stopPc, prefillPc>>

\* get(): returns the oldest frame, or suspends on an empty queue.
Get ==
    /\ caller = "producer"
    /\ consumerPc = "idle"
    /\ IF queue # <<>>
       THEN /\ delivered' = Append(delivered, Head(queue))
            /\ queue' = Tail(queue)
            /\ UNCHANGED consumerPc
       ELSE /\ consumerPc' = "getting"
            /\ UNCHANGED <<queue, delivered>>
    /\ UNCHANGED <<putLog, frame_index, producerLocals, pc, image, calls, running,
                   configVars, slept, evolver, tsettings, hostVars, stopPc, prefillPc>>

\* A suspended get() is resumed by a frame.
GetResume ==
    /\ consumerPc = "getting"
    /\ queue # <<>>
    /\ delivered' = Append(delivered, Head(queue))
    /\ queue' = Tail(queue)
    /\ consumerPc' = "idle"
    /\ UNCHANGED <<putLog, frame_index, producerLocals, pc, image, calls, running,
                   configVars, slept, evolver, tsettings, hostVars, stopPc, prefillPc>>

\* A stop() that cancels the producer task instead of waiting for it.
StopCancels ==
    /\ caller = "producer"
    /\ stopPc = "idle"
    /\ running' = FALSE
    /\ pc' = IF pc = "idle" THEN "idle" ELSE "done"
    /\ stopPc' = "returned"
    /\ UNCHANGED <<queueVars, producerLocals, image, calls, configVars, slept, evolver, tsettings, hostVars,
                   delivered, consumerPc, prefillPc>>

\* stop(): clears the flag and awaits the producer task, if there is one.
Stop ==
    /\ caller = "producer"
    /\ stopPc = "idle"
    /\ running' = FALSE
    /\ stopPc' = IF pc \in {"idle", "done"} THEN "returned" ELSE "awaiting"
    /\ UNCHANGED <<queueVars, producerLocals, pc, image, calls, configVars, slept, evolver, tsettings, hostVars,
                   delivered, consumerPc, prefillPc>>

\* The producer task has ended: stop() returns.
StopReturn ==
    /\ stopPc = "awaiting"
    /\ pc = "done"
    /\ stopPc' = "returned"
    /\ UNCHANGED <<queueVars, producerLocals, pc, image, calls, running, configVars, slept, evolver, tsettings, hostVars,
                   delivered, consumerPc, prefillPc>>

\* A polling loop that gives up one frame early.
PrefillDoneEarly == Len(queue) + 1 >= queue_depth

PrefillDone == Len(queue) >= queue_depth

\* prefill(): the first test of the polling loop.
Prefill ==
    /\ caller = "producer"
    /\ prefillPc = "idle"
    /\ prefillPc' = IF PrefillDone THEN "returned" ELSE "sleeping"
    /\ UNCHANGED <<queueVars, producerLocals, pc, image, calls, running, configVars, slept, evolver, tsettings, hostVars,
                   delivered, consumerPc, stopPc>>

\* prefill(): a 0.1-second sleep ends and the loop tests again.
PrefillPoll ==
    /\ prefillPc = "sleeping"
    /\ PrefillDone
    /\ prefillPc' = "returned"
    /\ UNCHANGED <<queueVars, producerLocals, pc, image, calls, running, configVars, slept, evolver, tsettings, hostVars,
                   delivered, consumerPc, stopPc>>

Next ==
    \/ Start
    \/ ProducerBegin
    \/ GenerateOk
    \/ GenerateFail
    \/ BackoffDone
    \/ FallbackOk
    \/ FallbackFail
    \/ PauseDone
    \/ PutResume
    \/ Get
    \/ GetResume
    \/ Stop
    \/ StopReturn
    \/ Prefill
    \/ PrefillPoll

Spec == Init /\ [][Next]_vars

\* The event loop runs every task that is ready, timers fire and the generation
\* client answers every call; nothing obliges a client to call get().
Fairness ==
    /\ WF_vars(ProducerBegin)
    /\ WF_vars(GenerateOk \/ GenerateFail)
    /\ WF_vars(BackoffDone)
    /\ WF_vars(FallbackOk \/ FallbackFail)
    /\ WF_vars(PauseDone)
    /\ WF_vars(PutResume)
    /\ WF_vars(GetResume)
    /\ WF_vars(StopReturn)
    /\ WF_vars(PrefillPoll)

LiveSpec == Init /\ [][Next]_vars /\ Fairness

\* ------------------------------------------- _generate_with_retry alone
\* One direct call _generate_with_retry(prompt, seed, max_retries) on a freshly
\* constructed queue with the default configuration.
InitRetry ==
    /\ InitCommon
    /\ evolver = NoEvolver
    /\ CliOff
    /\ TuiOff
    /\ queue_depth = 2
    /\ frames_per_cycle = 1
    /\ iterLen = NoLimit
    /\ caller = "direct"
    /\ pc = "ready"
    /\ prompt \in {Item(0), Item(1), Item(2)}
    /\ seed \in Seeds
    /\ max_retries \in 1..MaxRetriesArg

\* The call enters the retry loop and issues attempt 0.
Call ==
    /\ caller = "direct"
    /\ pc = "ready"
    /\ attempt' = 0
    /\ calls' = Append(calls, CallRec(prompt, seed, 0, FALSE))
    /\ pc' = "generating"
    /\ UNCHANGED <<queueVars, prompt_buffer, cycle_count, iterPos, prompt, image,
                   running, configVars, slept, evolver, tsettings, hostVars, clientVars>>

NextRetry ==
    \/ Call
    \/ GenerateOk
    \/ GenerateFail
    \/ BackoffDone
    \/ FallbackOk
    \/ FallbackFail

RetrySpec == InitRetry /\ [][NextRetry]_vars

\* The generation client answers every call and every backoff timer fires.
RetryFairness ==
    /\ WF_vars(GenerateOk \/ GenerateFail)
    /\ WF_vars(BackoffDone)
    /\ WF_vars(FallbackOk \/ FallbackFail)

RetryLiveSpec == RetrySpec /\ RetryFairness

\* ================================================================ claims
\* Helpers over the logs.
NoCallOk == \A c \in DOMAIN calls : calls[c].result # "ok"
NoCallFailed == \A c \in DOMAIN calls : calls[c].result # "fail"

\* The frames the producer has obtained from call c: those it inserted and the
\* one it holds while suspended in queue.put.
FramesOf(c) ==
    Cardinality({i \in DOMAIN putLog : putLog[i].image = c})
        + (IF pc = "putting" /\ image.image = c THEN 1 ELSE 0)

\* The number of frames the producer has obtained in all.
FramesProduced == Len(putLog) + (IF pc = "putting" THEN 1 ELSE 0)

\* The number of producer iterations whose generation step has finished.
SlotsFinished ==
    Cardinality({c \in DOMAIN calls :
        \/ ~calls[c].fallback /\ calls[c].result = "ok"
        \/ calls[c].fallback /\ calls[c].result # "pending"})

\* C1: in every reachable state, for every capacity queue_depth >= 1, the queue
\* holds at most queue_depth frames; the producer suspends in its insert while
\* the queue holds queue_depth frames.
C1_QueueBounded == Len(queue) <= queue_depth

\* The producer is suspended in its insert on a full queue of capacity 2 with a
\* third frame in hand.
C1_Witness ==
    /\ pc = "putting"
    /\ queue_depth = 2
    /\ Len(queue) = 2
    /\ image # NoFrame

\* C2: frames are delivered in exactly the order the producer generated them:
\* the frames returned by get(), followed by the frames still queued, are the
\* frames inserted, in insertion order, and insertion order is generation order.
C2_FifoDelivery ==
    /\ delivered \o queue = putLog
    /\ \A i, j \in DOMAIN putLog : i < j => putLog[i].image < putLog[j].image

\* Three frames of three different prompts were delivered.
C2_Witness ==
    /\ Len(delivered) = 3
    /\ delivered[1].prompt # delivered[2].prompt
    /\ delivered[2].prompt # delivered[3].prompt
    /\ queue_depth = 2

\* C3 (as claimed): once stop() has been called on a started queue, the producer
\* task terminates, whatever state it was in.
C3_StopTerminatesProducer == (stopPc = "awaiting") ~> (pc = "done")

\* C4 (as claimed): a get() on an empty queue whose producer has ended returns.
C4_GetReturns == (consumerPc = "getting" /\ pc = "done") ~> (consumerPc = "idle")

C6_FailTwiceThenSucceed ==
    (caller = "producer" /\ max_retries = DefaultMaxRetries) =>
        /\ pc # "raised"
        /\ \A c \in DOMAIN calls :
            (/\ c + 2 \in DOMAIN calls
             /\ ~calls[c].fallback
             /\ calls[c].attempt = 0
             /\ calls[c].result = "fail"
             /\ calls[c + 1].result = "fail"
             /\ calls[c + 2].result = "ok") =>
                /\ FramesOf(c) = 0
                /\ FramesOf(c + 1) = 0
                /\ FramesOf(c + 2) = 1

\* A slot whose calls failed twice and then succeeded has its frame in the queue.
C6_Witness ==
    /\ Len(calls) >= 3
    /\ calls[1].result = "fail"
    /\ calls[2].result = "fail"
    /\ calls[3].result = "ok"
    /\ Len(putLog) >= 1
    /\ putLog[1].image = 3

\* C7: one call of _generate_with_retry makes at most max_retries attempts, all
\* with the selected prompt and seed; the fallback call is made exactly when
\* all max_retries attempts have failed, once, with the prompt "abstract
\* colorful shapes" and no seed; the frame returned is labelled as fallback if
\* it comes from the fallback call and with the selected prompt otherwise.
C7_RetryThenFallback ==
    caller = "direct" =>
        LET attempts == {c \in DOMAIN calls : ~calls[c].fallback}
            fallbacks == {c \in DOMAIN calls : calls[c].fallback}
            failed == {c \in attempts : calls[c].result = "fail"}
        IN /\ Cardinality(attempts) <= max_retries
           /\ \A c \in attempts : calls[c].prompt = prompt /\ calls[c].seed = seed
           /\ Cardinality(fallbacks) <= 1
           /\ (fallbacks # {}) <=> (Cardinality(failed) = max_retries)
           /\ \A c \in fallbacks :
                calls[c].prompt = FallbackPrompt /\ calls[c].seed = NoSeed
           /\ (pc = "returned") =>
                /\ calls[image.image].result = "ok"
                /\ IF fallbacks = {}
                   THEN image.prompt = prompt /\ image.image \in attempts
                   ELSE image.prompt = FallbackLabel /\ image.image \in fallbacks

\* A call with a seed and three attempts returned a fallback frame.
C7_Witness ==
    /\ caller = "direct"
    /\ pc = "returned"
    /\ max_retries = 3
    /\ seed # NoSeed
    /\ Len(calls) = 4
    /\ image.prompt = FallbackLabel

\* A call returned the frame of its second attempt without any fallback call.
C7_WitnessNoFallback ==
    /\ caller = "direct"
    /\ pc = "returned"
    /\ Len(calls) = 2
    /\ image.prompt = prompt

\* C8 (as claimed): with frames_per_cycle = N > 1 and no failing call, the k-th
\* generation call (0-based) uses the (k mod N)-th prompt of the sequencer.
C8_CyclePeriod ==
    (caller = "producer" /\ frames_per_cycle > 1 /\ iterLen = NoLimit /\ NoCallFailed) =>
        \A k \in DOMAIN calls : calls[k].prompt = Item((k - 1) % frames_per_cycle)

\* C9 (as claimed): with frames_per_cycle = 1 and no failing call, the k-th
\* generation call (0-based) uses the k-th prompt of the sequencer.
C9_FreshPrompts ==
    (caller = "producer" /\ frames_per_cycle = 1 /\ iterLen = NoLimit /\ NoCallFailed) =>
        \A k \in DOMAIN calls : calls[k].prompt = Item(k - 1)

\* C10: prefill() returns only in a state where the queue holds at least
\* queue_depth frames.
C10_PrefillNotEarly ==
    [][(prefillPc # "returned" /\ prefillPc' = "returned")
          => Len(queue') >= queue_depth]_vars

\* prefill() has returned on a queue of capacity 2 after the producer inserted.
C10_Witness ==
    /\ prefillPc = "returned"
    /\ queue_depth = 2
    /\ Len(putLog) >= 2

\* C12: stop() is cooperative: the step that calls it only clears the flag and
\* leaves the producer task, its call log and the queue as they are; a
\* generation call in flight after stop() was called ends with a result of its
\* own; and stop() returns only when the producer task has ended (or there was
\* none).
C12_StopCooperative ==
    [][/\ (stopPc = "idle" /\ stopPc' # "idle") =>
            (~running' /\ pc' = pc /\ calls' = calls /\ queue' = queue /\ image' = image)
       /\ (stopPc # "idle" /\ pc \in {"generating", "fallback"} /\ pc' # pc) =>
            calls'[Len(calls)].result # "pending"
       /\ (stopPc # "returned" /\ stopPc' = "returned") => pc' \in {"idle", "done"}
      ]_vars

\* stop() was called with a generation call in flight and has returned after
\* that call gave its frame to the queue.
C12_Witness ==
    /\ stopPc = "returned"
    /\ pc = "done"
    /\ Len(calls) = 1
    /\ calls[1].result = "ok"
    /\ Len(putLog) = 1
    /\ delivered = <<>>

\* C14: an exception that leaves the retry step (the fallback call raising)
\* never ends the producer: it moves to the 1-second pause with the queue and
\* the cursor unchanged, after the pause it starts the iteration again with
\* attempt 0, and while the flag is set the task has neither ended nor raised.
C14_ProducerSurvivesException ==
    [][/\ (pc = "fallback" /\ pc' # "fallback" /\ calls'[Len(calls)].result = "fail") =>
            (pc' = "pause" /\ queue' = queue /\ frame_index' = frame_index)
       /\ (pc = "pause" /\ pc' # "pause") =>
            (IF running THEN pc' = "generating" /\ attempt' = 0 /\ Len(calls') = Len(calls) + 1
             ELSE pc' = "done")
       /\ (running' => pc' \notin {"done", "raised"})
      ]_vars

\* After a failed fallback call and the pause, the producer is generating again.
C14_Witness ==
    /\ running
    /\ pc = "generating"
    /\ attempt = 0
    /\ Len(calls) = DefaultMaxRetries + 2
    /\ calls[DefaultMaxRetries + 1].fallback
    /\ calls[DefaultMaxRetries + 1].result = "fail"

\* ============================================== the CLI session (cli/main.py)
\* async_main creates the queue with this depth.
CliQueueDepth == 2

\* The panel of show_generating(), as the class defines it last: printed on
\* the console, whether or not a live display is active.
GeneratingPanel == [prompt |-> "Generating next frame...", image |-> 0]

\* async_main before queue.start(): the queue is constructed from the parsed
\* arguments and the prompts come from get_evolver, which never ends.
CliInit ==
    /\ InitCommon
    /\ evolver = NoEvolver
    /\ queue_depth = CliQueueDepth
    /\ frames_per_cycle \in 1..MaxCycle
    /\ iterLen = NoLimit
    /\ caller = "producer"
    /\ pc = "idle"
    /\ prompt = ""
    /\ seed = NoSeed
    /\ max_retries = DefaultMaxRetries
    /\ cliPc = "init"
    /\ displayPc = "none"
    /\ live = FALSE
    /\ shown = NoFrame
    /\ ptasks = <<>>
    /\ TuiOff

\* async_main: queue.start(), then prefill() up to its first sleep.
CliStart ==
    /\ cliPc = "init"
    /\ running' = TRUE
    /\ pc' = "created"
    /\ prefillPc' = IF PrefillDone THEN "returned" ELSE "sleeping"
    /\ cliPc' = IF PrefillDone THEN "displaying" ELSE "prefill"
    /\ displayPc' = IF PrefillDone THEN "created" ELSE displayPc
    /\ UNCHANGED <<queueVars, producerLocals, image, calls, configVars, slept, evolver, tsettings, ptasks, tuiVars, delivered,
                   consumerPc, stopPc, live, shown>>

\* async_main: prefill() returns, the display task is created and awaited.
CliPrefillPoll ==
    /\ cliPc = "prefill"
    /\ PrefillDone
    /\ prefillPc' = "returned"
    /\ cliPc' = "displaying"
    /\ displayPc' = "created"
    /\ UNCHANGED <<queueVars, producerLocals, pc, image, calls, running, configVars, slept, evolver, tsettings, ptasks, tuiVars,
                   delivered, consumerPc, stopPc, live, shown>>

\* await queue.get() in the display loop, then convert and show: get()
\* returns the oldest frame without suspending when there is one and suspends
\* the display task on an empty queue.
DisplayGet(on) ==
    IF queue # <<>>
    THEN /\ delivered' = Append(delivered, Head(queue))
         /\ queue' = Tail(queue)
         /\ shown' = IF on THEN Head(queue) ELSE shown
         /\ displayPc' = "sleeping"
    ELSE /\ displayPc' = "getting"
         /\ UNCHANGED <<queue, delivered, shown>>

\* A pass that calls get() without testing the queue first.
TickBlind(on) == DisplayGet(on)

\* A pass that shows the oldest frame and leaves it in the queue.
TickKeeps(on) ==
    /\ IF queue = <<>>
       THEN /\ shown' = GeneratingPanel
            /\ UNCHANGED <<queue, delivered>>
       ELSE /\ delivered' = Append(delivered, Head(queue))
            /\ queue' = queue
            /\ shown' = IF on THEN Head(queue) ELSE shown
    /\ displayPc' = "sleeping"

\* One pass of the while loop of run_display_loop, up to its sleep; on is
\* whether the live display is active.
Tick(on) ==
    IF queue = <<>>
    THEN /\ shown' = GeneratingPanel
         /\ displayPc' = "sleeping"
         /\ UNCHANGED <<queue, delivered>>
    ELSE DisplayGet(on)

\* The display task runs for the first time: start_live_display, first pass.
DisplayBegin ==
    /\ displayPc = "created"
    /\ cliPc = "displaying"
    /\ live' = TRUE
    /\ Tick(TRUE)
    /\ UNCHANGED <<putLog, frame_index, producerLocals, pc, image, calls, running,
                   configVars, slept, evolver, tsettings, ptasks, tuiVars, consumerPc, stopPc, prefillPc, cliPc>>

\* The sleep of the display loop ends: next pass.
DisplayWake ==
    /\ displayPc = "sleeping"
    /\ cliPc = "displaying"
    /\ Tick(live)
    /\ UNCHANGED <<putLog, frame_index, producerLocals, pc, image, calls, running,
                   configVars, slept, evolver, tsettings, ptasks, tuiVars, consumerPc, stopPc, prefillPc, cliPc, live>>

\* The user interrupts: async_main cancels the display task and awaits it.
Interrupt ==
    /\ cliPc = "displaying"
    /\ cliPc' = "cancelling"
    /\ UNCHANGED <<queueVars, producerLocals, pc, image, calls, running, configVars, slept, evolver, tsettings, ptasks, tuiVars,
                   clientVars, displayPc, live, shown>>

\* A stop_live_display that starts a display when none is active.
StopLiveDisplayToggle(l) == ~l

\* stop_live_display: stops the live display if there is one and forgets it.
StopLiveDisplay(l) == IF l THEN FALSE ELSE l

\* The display task receives the cancellation: a task that never ran is just
\* cancelled, a sleeping one runs its except handler and its finally block,
\* each of which calls stop_live_display.
DisplayCancelled ==
    /\ cliPc = "cancelling"
    /\ displayPc \in {"created", "sleeping"}
    /\ displayPc' = IF displayPc = "created" THEN "cancelled" ELSE "done"
    /\ live' = IF displayPc = "created" THEN live
               ELSE StopLiveDisplay(StopLiveDisplay(live))
    /\ UNCHANGED <<queueVars, producerLocals, pc, image, calls, running, configVars, slept, evolver, tsettings, ptasks, tuiVars,
                   clientVars, cliPc, shown>>

\* async_main: the display task has ended; queue.stop() clears the flag and
\* awaits the producer task.
CliStop ==
    /\ cliPc = "cancelling"
    /\ displayPc \in {"cancelled", "done"}
    /\ running' = FALSE
    /\ stopPc' = IF pc \in {"idle", "done"} THEN "returned" ELSE "awaiting"
    /\ cliPc' = IF pc \in {"idle", "done"} THEN "goodbye" ELSE "stopping"
    /\ UNCHANGED <<queueVars, producerLocals, pc, image, calls, configVars, slept, evolver, tsettings, ptasks, tuiVars,
                   delivered, consumerPc, prefillPc, displayPc, live, shown>>

\* async_main: queue.stop() returns and display.goodbye() is shown.
CliGoodbye ==
    /\ cliPc = "stopping"
    /\ pc = "done"
    /\ stopPc' = "returned"
    /\ cliPc' = "goodbye"
    /\ UNCHANGED <<queueVars, producerLocals, pc, image, calls, running, configVars, slept, evolver, tsettings, ptasks, tuiVars,
                   delivered, consumerPc, prefillPc, displayPc, live, shown>>

CliNext ==
    \/ CliStart
    \/ CliPrefillPoll
    \/ DisplayBegin
    \/ DisplayWake
    \/ Interrupt
    \/ DisplayCancelled
    \/ CliStop
    \/ CliGoodbye
    \/ ProducerBegin
    \/ GenerateOk
    \/ GenerateFail
    \/ BackoffDone
    \/ FallbackOk
    \/ FallbackFail
    \/ PauseDone
    \/ PutResume

CliSpec == CliInit /\ [][CliNext]_vars

\* The event loop runs every ready task and timer and the generation client
\* answers every call; the user need not interrupt.
CliFairness ==
    /\ WF_vars(ProducerBegin)
    /\ WF_vars(GenerateOk \/ GenerateFail)
    /\ WF_vars(BackoffDone)
    /\ WF_vars(FallbackOk \/ FallbackFail)
    /\ WF_vars(PauseDone)
    /\ WF_vars(PutResume)
    /\ WF_vars(CliPrefillPoll)
    /\ WF_vars(DisplayBegin)
    /\ WF_vars(DisplayWake)
    /\ WF_vars(DisplayCancelled)
    /\ WF_vars(CliStop)
    /\ WF_vars(CliGoodbye)

CliLiveSpec == CliInit /\ [][CliNext]_vars /\ CliFairness

\* C11 (as claimed): after a user interrupt the orderly shutdown runs to
\* completion: the display loop has stopped, the live display is released,
\* queue.stop() has returned and the goodbye message is shown.
C11_ShutdownCompletes ==
    (cliPc = "cancelling") ~>
        (cliPc = "goodbye" /\ ~live /\ pc = "done" /\ stopPc = "returned")

\* C15 (as claimed): while prefill() waits, a producer iteration whose every
\* generation call failed, the fallback call included, ends the session with
\* an error instead of leaving prefill() waiting.
C15_StartupErrorPropagates ==
    (NoCallOk /\ SlotsFinished >= 1) => cliPc # "prefill"

\* ------------------------------------------ start() called more than once
\* Every call of start() creates a producer task of its own; the tasks share
\* the queue, the running flag, the prompt iterator and self._frame_index, and
\* each has the locals of its own _producer call.  ptasks[i] is the i-th task
\* created; call is the index of its latest generation call in the call log.
NewTask ==
    [pc |-> "created", prompt_buffer |-> <<>>, cycle_count |-> 0, prompt |-> "",
     attempt |-> 0, image |-> NoFrame, call |-> 0]

singleTask == <<pc, prompt_buffer, cycle_count, prompt, attempt, image>>

MultiInit ==
    /\ InitCommon
    /\ evolver = NoEvolver
    /\ CliOff
    /\ TuiOff
    /\ queue_depth \in 1..MaxDepth
    /\ frames_per_cycle \in 1..MaxCycle
    /\ iterLen = NoLimit
    /\ caller = "producer"
    /\ pc = "idle"
    /\ prompt = ""
    /\ seed = NoSeed
    /\ max_retries = DefaultMaxRetries

MSetResult(t, r) == [calls EXCEPT ![t.call].result = r]

\* Room in the call log for one more call.
MRoom == Len(calls) < MaxCalls

\* Room in the call log for one more iteration, after log.
MBudget(log) == Len(log) + max_retries + 1 <= MaxCalls

\* The head of the producer loop, run by task i whose locals are t.
MLoopHead(i, t, fi, log) ==
    IF ~running
    THEN /\ ptasks' = [ptasks EXCEPT ![i] = [t EXCEPT !.pc = "done"]]
         /\ calls' = log
         /\ UNCHANGED iterPos
    ELSE LET refill == t.cycle_count = 0 \/ frames_per_cycle > 1
             buf == IF refill THEN Refill(iterPos) ELSE t.prompt_buffer
             pos == IF refill
                    THEN iterPos + Available(iterPos, frames_per_cycle)
                    ELSE iterPos
             p == buf[(fi % Len(buf)) + 1]
         IN /\ ptasks' = [ptasks EXCEPT ![i] =
                             [t EXCEPT !.pc = "generating",
                                       !.prompt_buffer = buf,
                                       !.cycle_count = IF refill THEN 1 ELSE t.cycle_count,
                                       !.prompt = p,
                                       !.attempt = 0,
                                       !.call = Len(log) + 1]]
            /\ iterPos' = pos
            /\ calls' = Append(log, CallRec(p, seed, 0, FALSE))

\* The rest of an iteration of task i once _generate_with_retry returned f.
MPublish(i, t, f, log) ==
    IF Full
    THEN /\ ptasks' = [ptasks EXCEPT ![i] = [t EXCEPT !.pc = "putting", !.image = f]]
         /\ calls' = log
         /\ UNCHANGED <<queueVars, iterPos>>
    ELSE /\ queue' = Enqueue(queue, f)
         /\ putLog' = Append(putLog, f)
         /\ frame_index' = (frame_index + 1) % Len(t.prompt_buffer)
         /\ (running => MBudget(log))
         /\ MLoopHead(i, [t EXCEPT !.image = NoFrame],
                      (frame_index + 1) % Len(t.prompt_buffer), log)

\* start(): sets the flag and creates a producer task, whatever ran before.
\* The calls considered are those made before any stop().
MStart ==
    /\ Len(ptasks) < MaxStarts
    /\ stopPc = "idle"
    /\ running' = TRUE
    /\ ptasks' = Append(ptasks, NewTask)
    /\ UNCHANGED <<queueVars, iterPos, calls, singleTask, configVars, slept, evolver, tsettings, cliVars, tuiVars, clientVars>>

\* Task i runs for the first time.
MBegin(i) ==
    /\ ptasks[i].pc = "created"
    /\ (running => MBudget(calls))
    /\ MLoopHead(i, ptasks[i], frame_index, calls)
    /\ UNCHANGED <<queueVars, running, singleTask, configVars, slept, evolver, tsettings, cliVars, tuiVars, clientVars>>

\* The generation call of an attempt of task i returns an image.
MGenerateOk(i) ==
    /\ ptasks[i].pc = "generating"
    /\ MPublish(i, ptasks[i], [prompt |-> ptasks[i].prompt, image |-> ptasks[i].call],
                MSetResult(ptasks[i], "ok"))
    /\ UNCHANGED <<running, singleTask, configVars, slept, evolver, tsettings, cliVars, tuiVars, clientVars>>

\* The generation call of an attempt of task i raises.
MGenerateFail(i) ==
    /\ ptasks[i].pc = "generating"
    /\ IF IsFinalAttempt(ptasks[i].attempt)
       THEN /\ MRoom
            /\ calls' = Append(MSetResult(ptasks[i], "fail"),
                               CallRec(FallbackPrompt, NoSeed, ptasks[i].attempt, TRUE))
            /\ ptasks' = [ptasks EXCEPT ![i].pc = "fallback", ![i].call = Len(calls) + 1]
            /\ UNCHANGED slept
       ELSE /\ calls' = MSetResult(ptasks[i], "fail")
            /\ ptasks' = [ptasks EXCEPT ![i].pc = "backoff"]
            /\ slept' = Append(slept, [attempt |-> ptasks[i].attempt,
                                        seconds |-> BackoffSeconds(ptasks[i].attempt)])
    /\ UNCHANGED <<queueVars, iterPos, running, singleTask, configVars, evolver, tsettings, cliVars, tuiVars, clientVars>>

\* The backoff sleep of task i ends: its next attempt is issued.
MBackoffDone(i) ==
    /\ ptasks[i].pc = "backoff"
    /\ MRoom
    /\ calls' = Append(calls, CallRec(ptasks[i].prompt, seed, ptasks[i].attempt + 1, FALSE))
    /\ ptasks' = [ptasks EXCEPT ![i].pc = "generating",
                                ![i].attempt = ptasks[i].attempt + 1,
                                ![i].call = Len(calls) + 1]
    /\ UNCHANGED <<queueVars, iterPos, running, singleTask, configVars, slept, evolver, tsettings, cliVars, tuiVars, clientVars>>

\* The fallback generation call of task i returns an image.
MFallbackOk(i) ==
    /\ ptasks[i].pc = "fallback"
    /\ MPublish(i, ptasks[i], [prompt |-> FallbackLabel, image |-> ptasks[i].call],
                MSetResult(ptasks[i], "ok"))
    /\ UNCHANGED <<running, singleTask, configVars, slept, evolver, tsettings, cliVars, tuiVars, clientVars>>

\* The fallback generation call of task i raises: its outer handler sleeps.
MFallbackFail(i) ==
    /\ ptasks[i].pc = "fallback"
    /\ calls' = MSetResult(ptasks[i], "fail")
    /\ ptasks' = [ptasks EXCEPT ![i].pc = "pause"]
    /\ UNCHANGED <<queueVars, iterPos, running, singleTask, configVars, slept, evolver, tsettings, cliVars, tuiVars, clientVars>>

\* The 1-second sleep of task i ends: next loop head.
MPauseDone(i) ==
    /\ ptasks[i].pc = "pause"
    /\ (running => MBudget(calls))
    /\ MLoopHead(i, ptasks[i], frame_index, calls)
    /\ UNCHANGED <<queueVars, running, singleTask, configVars, slept, evolver, tsettings, cliVars, tuiVars, clientVars>>

\* Task i, suspended in queue.put, finds room.
MPutResume(i) ==
    /\ ptasks[i].pc = "putting"
    /\ ~Full
    /\ MPublish(i, ptasks[i], ptasks[i].image, calls)
    /\ UNCHANGED <<running, singleTask, configVars, slept, evolver, tsettings, cliVars, tuiVars, clientVars>>

\* stop(): clears the flag and awaits self._producer_task, the task created
\* last.
MStop ==
    /\ stopPc = "idle"
    /\ running' = FALSE
    /\ stopPc' = IF ptasks = <<>> \/ ptasks[Len(ptasks)].pc = "done"
                 THEN "returned" ELSE "awaiting"
    /\ UNCHANGED <<queueVars, iterPos, calls, ptasks, singleTask, configVars, slept, evolver, tsettings, cliVars, tuiVars,
                   delivered, consumerPc, prefillPc>>

\* The task created last has ended: stop() returns.
MStopReturn ==
    /\ stopPc = "awaiting"
    /\ ptasks[Len(ptasks)].pc = "done"
    /\ stopPc' = "returned"
    /\ UNCHANGED <<queueVars, iterPos, calls, ptasks, running, singleTask, configVars, slept, evolver, tsettings,
                   cliVars, tuiVars, delivered, consumerPc, prefillPc>>

MultiNext ==
    \/ MStart
    \/ \E i \in 1..Len(ptasks) : MBegin(i)
    \/ \E i \in 1..Len(ptasks) : MGenerateOk(i)
    \/ \E i \in 1..Len(ptasks) : MGenerateFail(i)
    \/ \E i \in 1..Len(ptasks) : MBackoffDone(i)
    \/ \E i \in 1..Len(ptasks) : MFallbackOk(i)
    \/ \E i \in 1..Len(ptasks) : MFallbackFail(i)
    \/ \E i \in 1..Len(ptasks) : MPauseDone(i)
    \/ \E i \in 1..Len(ptasks) : MPutResume(i)
    \/ Get
    \/ GetResume
    \/ MStop
    \/ MStopReturn

MultiSpec == MultiInit /\ [][MultiNext]_vars

\* The producer tasks that have not ended.
LiveTasks == {i \in 1..Len(ptasks) : ptasks[i].pc # "done"}

\* C13: start() is idempotent before a stop(): however often start() is called
\* on a queue, at most one producer task exists, and every generation call is
\* made by the task the first start() created.
C13_SingleProducer ==
    /\ Cardinality(LiveTasks) <= 1
    /\ \A i \in 1..Len(ptasks) : i > 1 => ptasks[i].call = 0

\* ------------------------------------- the thread-hosted producer (TUI)
\* ASCIIDreamApp runs the producer as a daemon thread.  Threads are
\* preemptive: one worker action is one block of _generation_worker between
\* two points where the thread can wait (the generation call, a put on a full
\* queue); the user interface runs on the main thread, which a timed get or
\* join holds for at most its timeout.
MaxSessions == 2        \* calls of start_continuous_generation that start a worker
MaxTCalls == 5          \* calls of generator.generate.remote in one run; the
                        \* k-th call draws the k-th prompt and makes image k

TuiQueueDepth == 3

\* The frame the worker's exception handler inserts: (f"[Error: {e}]", "error").
ErrorFrame == [prompt |-> "error", image |-> 0]

\* The variables of the ImageQueue model and its asyncio hosts.
queueOnlyVars == <<queueVars, producerLocals, configVars, evolver, slept, clientVars, pc, image,
                   calls, running, cliVars, ptasks>>

queueModelVars == <<queueVars, producerLocals, configVars, slept, evolver, tsettings, clientVars, pc, image,
                    calls, running, cliVars, ptasks>>

\* ASCIIDreamApp.__init__, followed by the main menu.  The app has no
\* ImageQueue: nobody calls its methods.
TuiInit ==
    /\ InitCommon
    /\ evolver = NoEvolver
    /\ CliOff
    /\ queue_depth = CliQueueDepth
    /\ frames_per_cycle = 1
    /\ iterLen = NoLimit
    /\ caller = "none"
    /\ pc = "idle"
    /\ prompt = ""
    /\ seed = NoSeed
    /\ max_retries = DefaultMaxRetries
    /\ tui = "menu"
    /\ tsettings = [config |-> DefaultConfig, used |-> NoGeneration]
    /\ generator \in {"None", "modal"}
    /\ tqueues = <<>>
    /\ tevents = <<>>
    /\ tsession = 0
    /\ workers = <<>>
    /\ tIterPos = 0
    /\ tget = [pc |-> "idle", q |-> 0]
    /\ current_frame = NoFrame
    /\ is_paused = FALSE

\* A worker thread: k is the number of the generation call it is waiting for
\* (its prompt is the k-th item drawn), frame and q the frame and the queue of
\* the put it is blocked in.
NewWorker == [pc |-> "test", k |-> 0, frame |-> NoFrame, q |-> 0]

QueueFull(q) == Len(tqueues[q]) >= TuiQueueDepth

\* LoadingScreen.on_mount: start_continuous_generation(), then the thread of
\* wait_for_first_frame is started.
DreamStart ==
    /\ tui = "menu"
    /\ IF generator = "None"
       THEN UNCHANGED <<tqueues, tevents, tsession, workers, tsettings>>
       ELSE /\ Len(workers) < MaxSessions
            /\ tsettings' = IF tsettings.used.init
                            THEN tsettings
                            ELSE [tsettings EXCEPT
                                     !.used = InitializeGeneration(tsettings.config)]
            /\ tqueues' = Append(tqueues, <<>>)
            /\ tevents' = Append(tevents, FALSE)
            /\ tsession' = Len(tqueues) + 1
            /\ workers' = Append(workers, NewWorker)
    /\ tui' = "loading"
    /\ UNCHANGED <<generator, tIterPos, tget, current_frame, is_paused, queueOnlyVars>>

\* A playback screen that clears its frame when get_next_frame returns None.
ReceivedBlank(r, isFrame) ==
    /\ tget' = [pc |-> "idle", q |-> 0]
    /\ IF tui = "loading"
       THEN /\ tui' = IF isFrame THEN "playing" ELSE "menu"
            /\ current_frame' = IF isFrame THEN r ELSE current_frame
            /\ is_paused' = FALSE
       ELSE /\ current_frame' = IF isFrame THEN r ELSE NoFrame
            /\ UNCHANGED <<tui, is_paused>>

\* What the caller of get_next_frame does with the result r, None included:
\* wait_for_first_frame opens the playback screen or goes back,
\* _get_and_display_next_frame replaces the current frame.
Received(r, isFrame) ==
    /\ tget' = [pc |-> "idle", q |-> 0]
    /\ IF tui = "loading"
       THEN /\ tui' = IF isFrame THEN "playing" ELSE "menu"
            /\ current_frame' = IF isFrame THEN r ELSE current_frame
            /\ is_paused' = FALSE
       ELSE /\ current_frame' = IF isFrame THEN r ELSE current_frame
            /\ UNCHANGED <<tui, is_paused>>

\* A get that waits without a timeout.
GetTimesOutNever(q) == FALSE

\* queue.get(timeout=...) raises Empty when the timeout passes and the queue
\* is still empty.
GetTimesOut(q) == tqueues[q] = <<>>

\* A timer callback that does not look at is_paused.
GetNextFrameCallDeaf ==
    /\ tget.pc = "idle"
    /\ tui = "loading" \/ tui = "playing"
    /\ IF tsession = 0
       THEN /\ Received(NoFrame, FALSE)
            /\ UNCHANGED tqueues
       ELSE IF tqueues[tsession] # <<>>
       THEN /\ Received(Head(tqueues[tsession]), TRUE)
            /\ tqueues' = [tqueues EXCEPT ![tsession] = Tail(@)]
       ELSE /\ tget' = [pc |-> "waiting", q |-> tsession]
            /\ UNCHANGED <<tqueues, tui, current_frame, is_paused>>
    /\ UNCHANGED <<generator, tevents, tsession, workers, tIterPos, queueModelVars>>

\* get_next_frame is called: by wait_for_first_frame on the loading screen, by
\* the interval timer on the playback screen unless paused.
GetNextFrameCall ==
    /\ tget.pc = "idle"
    /\ tui = "loading" \/ (tui = "playing" /\ ~is_paused)
    /\ IF tsession = 0
       THEN /\ Received(NoFrame, FALSE)
            /\ UNCHANGED tqueues
       ELSE IF tqueues[tsession] # <<>>
       THEN /\ Received(Head(tqueues[tsession]), TRUE)
            /\ tqueues' = [tqueues EXCEPT ![tsession] = Tail(@)]
       ELSE /\ tget' = [pc |-> "waiting", q |-> tsession]
            /\ UNCHANGED <<tqueues, tui, current_frame, is_paused>>
    /\ UNCHANGED <<generator, tevents, tsession, workers, tIterPos, queueModelVars>>

\* A frame arrives in the queue a get is waiting on.
GetNextFrameResume ==
    /\ tget.pc = "waiting"
    /\ tqueues[tget.q] # <<>>
    /\ Received(Head(tqueues[tget.q]), TRUE)
    /\ tqueues' = [tqueues EXCEPT ![tget.q] = Tail(@)]
    /\ UNCHANGED <<generator, tevents, tsession, workers, tIterPos, queueModelVars>>

\* The timeout of a waiting get passes: get_next_frame returns None.
GetNextFrameTimeout ==
    /\ tget.pc = "waiting"
    /\ GetTimesOut(tget.q)
    /\ Received(NoFrame, FALSE)
    /\ UNCHANGED <<generator, tqueues, tevents, tsession, workers, tIterPos, queueModelVars>>

\* action_pause_resume.
PauseResume ==
    /\ tui = "playing"
    /\ tget.pc = "idle"
    /\ is_paused' = ~is_paused
    /\ UNCHANGED <<tui, generator, tqueues, tevents, tsession, workers, tIterPos,
                   tget, current_frame, queueModelVars>>

\* The playback screen is closed: on_unmount calls
\* stop_continuous_generation, which sets the event and joins the thread
\* started last if it is alive.
Back ==
    /\ tui = "playing"
    /\ tget.pc = "idle"
    /\ tevents' = [tevents EXCEPT ![tsession] = TRUE]
    /\ tui' = IF workers[Len(workers)].pc # "done" THEN "joining" ELSE "menu"
    /\ UNCHANGED <<generator, tqueues, tsession, workers, tIterPos, tget, current_frame, is_paused, queueModelVars>>

\* join(timeout=2) returns because the thread has ended.
JoinDone ==
    /\ tui = "joining"
    /\ workers[Len(workers)].pc = "done"
    /\ tui' = "menu"
    /\ UNCHANGED <<generator, tqueues, tevents, tsession, workers, tIterPos, tget, current_frame, is_paused, queueModelVars>>

\* join(timeout=2) returns after two seconds, the thread still alive: it is
\* in a generation call or blocked in a put, which can last that long.
JoinTimeout ==
    /\ tui = "joining"
    /\ workers[Len(workers)].pc \in {"generating", "putting"}
    /\ tui' = "menu"
    /\ UNCHANGED <<generator, tqueues, tevents, tsession, workers, tIterPos, tget, current_frame, is_paused, queueModelVars>>

\* The while test of worker w, read from self.stop_generation as it is now,
\* then next(self.prompt_iterator) and the generation call.
WorkerLoop(w) ==
    /\ workers[w].pc = "test"
    /\ IF tevents[tsession]
       THEN /\ workers' = [workers EXCEPT ![w].pc = "done"]
            /\ UNCHANGED tIterPos
       ELSE /\ tIterPos < MaxTCalls
            /\ workers' = [workers EXCEPT ![w].pc = "generating",
                                          ![w].k = tIterPos + 1]
            /\ tIterPos' = tIterPos + 1
    /\ UNCHANGED <<tui, generator, tqueues, tevents, tsession, tget, current_frame, is_paused, queueModelVars>>

\* A put that overwrites the newest frame of a full queue.
PutFrameOverwrites(w, f) ==
    IF QueueFull(tsession)
    THEN /\ tqueues' = [tqueues EXCEPT ![tsession] =
                           Append(SubSeq(@, 1, Len(@) - 1), f)]
         /\ workers' = [workers EXCEPT ![w] = NewWorker]
    ELSE /\ tqueues' = [tqueues EXCEPT ![tsession] = Append(@, f)]
         /\ workers' = [workers EXCEPT ![w] = NewWorker]

\* self.frame_queue.put(frame): the queue is the one self.frame_queue names
\* now; the thread blocks while it is full.
PutFrame(w, f) ==
    IF QueueFull(tsession)
    THEN /\ workers' = [workers EXCEPT ![w] = [pc |-> "putting", k |-> 0, frame |-> f,
                                                 q |-> tsession]]
         /\ UNCHANGED tqueues
    ELSE /\ tqueues' = [tqueues EXCEPT ![tsession] = Append(@, f)]
         /\ workers' = [workers EXCEPT ![w] = NewWorker]

\* The generation call of worker w returns and the image is converted.
WorkerGenerateOk(w) ==
    /\ workers[w].pc = "generating"
    /\ PutFrame(w, [prompt |-> Item(workers[w].k - 1), image |-> workers[w].k])
    /\ UNCHANGED <<tui, generator, tevents, tsession, tIterPos, tget, current_frame, is_paused, queueModelVars>>

\* The generation call of worker w raises: the handler puts the error frame
\* with a timeout of one second.
WorkerGenerateFail(w) ==
    /\ workers[w].pc = "generating"
    /\ IF QueueFull(tsession)
       THEN /\ workers' = [workers EXCEPT ![w] = [pc |-> "errput", k |-> 0,
                                                    frame |-> ErrorFrame, q |-> tsession]]
            /\ UNCHANGED tqueues
       ELSE /\ tqueues' = [tqueues EXCEPT ![tsession] = Append(@, ErrorFrame)]
            /\ workers' = [workers EXCEPT ![w] = NewWorker]
    /\ UNCHANGED <<tui, generator, tevents, tsession, tIterPos, tget, current_frame, is_paused, queueModelVars>>

\* A blocked put of worker w, with or without timeout, finds room in the
\* queue it was called on.
WorkerPutResume(w) ==
    /\ workers[w].pc \in {"putting", "errput"}
    /\ ~QueueFull(workers[w].q)
    /\ tqueues' = [tqueues EXCEPT ![workers[w].q] = Append(@, workers[w].frame)]
    /\ workers' = [workers EXCEPT ![w] = NewWorker]
    /\ UNCHANGED <<tui, generator, tevents, tsession, tIterPos, tget, current_frame, is_paused, queueModelVars>>

\* The put of the error frame times out: queue.Full is passed over.
WorkerErrPutTimeout(w) ==
    /\ workers[w].pc = "errput"
    /\ QueueFull(workers[w].q)
    /\ workers' = [workers EXCEPT ![w] = NewWorker]
    /\ UNCHANGED <<tui, generator, tqueues, tevents, tsession, tIterPos, tget, current_frame, is_paused, queueModelVars>>

TuiNext ==
    \/ DreamStart
    \/ GetNextFrameCall
    \/ GetNextFrameResume
    \/ GetNextFrameTimeout
    \/ PauseResume
    \/ Back
    \/ JoinDone
    \/ JoinTimeout
    \/ \E w \in 1..Len(workers) : WorkerLoop(w)
    \/ \E w \in 1..Len(workers) : WorkerGenerateOk(w)
    \/ \E w \in 1..Len(workers) : WorkerGenerateFail(w)
    \/ \E w \in 1..Len(workers) : WorkerPutResume(w)
    \/ \E w \in 1..Len(workers) : WorkerErrPutTimeout(w)

TuiSpec == TuiInit /\ [][TuiNext]_vars

\* The first dream session of the app: no session is started after it.
FirstDreamStart ==
    /\ workers = <<>>
    /\ DreamStart

SessionNext ==
    \/ FirstDreamStart
    \/ GetNextFrameCall
    \/ GetNextFrameResume
    \/ GetNextFrameTimeout
    \/ PauseResume
    \/ Back
    \/ JoinDone
    \/ JoinTimeout
    \/ \E w \in 1..Len(workers) : WorkerLoop(w)
    \/ \E w \in 1..Len(workers) : WorkerGenerateOk(w)
    \/ \E w \in 1..Len(workers) : WorkerGenerateFail(w)
    \/ \E w \in 1..Len(workers) : WorkerPutResume(w)
    \/ \E w \in 1..Len(workers) : WorkerErrPutTimeout(w)

SessionSpec == TuiInit /\ [][SessionNext]_vars

\* Every thread is scheduled, the generation service answers every call and
\* every timeout passes; nothing obliges the user to press a key.
TuiFairness ==
    /\ WF_vars(GetNextFrameCall)
    /\ WF_vars(GetNextFrameResume \/ GetNextFrameTimeout)
    /\ WF_vars(JoinDone \/ JoinTimeout)
    /\ \A w \in 1..MaxSessions :
          /\ WF_vars(Len(workers) >= w /\ WorkerLoop(w))
          /\ WF_vars(Len(workers) >= w /\ (WorkerGenerateOk(w) \/ WorkerGenerateFail(w)))
          /\ WF_vars(Len(workers) >= w /\ (WorkerPutResume(w) \/ WorkerErrPutTimeout(w)))

TuiLiveSpec == TuiInit /\ [][TuiNext]_vars /\ TuiFairness

SessionLiveSpec == TuiInit /\ [][SessionNext]_vars /\ TuiFairness

\* The workers whose own session was stopped and followed by a new one.
LeftOver == {w \in 1..Len(workers) : tevents[w] /\ tsession > w}

\* C16: single producer per queue in the thread-hosted variant: after
\* stop_continuous_generation() followed by start_continuous_generation(), a
\* step of a worker left over from the earlier session neither inserts into
\* the new queue nor issues a generation call (it draws no prompt).
C16_SingleProducerPerQueue ==
    [][\A w \in LeftOver :
          (workers'[w] # workers[w]) =>
              /\ tqueues'[tsession] = tqueues[tsession]
              /\ workers'[w].pc # "generating"
              /\ tIterPos' = tIterPos
      ]_vars

\* C17: after stop_continuous_generation() has set the stop flag of the
\* session, its worker thread terminates, whatever it was doing, blocked in a
\* put on a full queue included.
C17_WorkerTerminates ==
    (workers # <<>> /\ tevents[1]) ~> (workers # <<>> /\ workers[1].pc = "done")

\* The frame get_next_frame hands to its caller when it removes one.
TakesHead(q) ==
    /\ tqueues[q] # <<>>
    /\ tqueues' = [tqueues EXCEPT ![q] = Tail(@)]
    /\ current_frame' = Head(tqueues[q])
    /\ tget'.pc = "idle"

\* C18: get_next_frame always returns.  Without a queue it returns None at
\* once; it waits only on an empty queue; a frame it returns is the oldest of
\* the queue and is removed from it; it returns None only while the queue is
\* empty; and a call that waits ends (a frame or the timeout).
C18_GetNextFrameReturns ==
    /\ [][/\ (tui = "loading" /\ tsession = 0 /\ tui' # tui)
               => (tui' = "menu" /\ tget'.pc = "idle" /\ current_frame' = current_frame)
          /\ (tget.pc = "idle" /\ tget'.pc = "waiting")
               => (tsession >= 1 /\ tget'.q = tsession /\ tqueues[tsession] = <<>>)
          /\ (\E q \in 1..Len(tqueues) : Len(tqueues'[q]) < Len(tqueues[q]))
               => TakesHead(IF tget.pc = "waiting" THEN tget.q ELSE tsession)
          /\ (tget.pc = "waiting" /\ tget'.pc = "idle" /\ tqueues' = tqueues)
               => (tqueues[tget.q] = <<>> /\ current_frame' = current_frame)
         ]_vars
    /\ (tget.pc = "waiting") ~> (tget.pc = "idle")

\* get_next_frame has returned None after waiting: the loading screen went
\* back to the menu with a session running and no frame received.
C18_Witness ==
    /\ tui = "menu"
    /\ tsession = 1
    /\ ~tevents[1]
    /\ tget.pc = "idle"
    /\ current_frame = NoFrame

\* C19: a generation failure is never surfaced to the display: the frame the
\* consumer holds is never the error placeholder.
C19_NoErrorFrameShown == current_frame # ErrorFrame

\* ------------------------------------------------------ both producer hosts
\* A run is either an ImageQueue with its asyncio producer or the TUI app with
\* its worker thread.
HostsInit == Init \/ TuiInit

HostsNext == Next \/ SessionNext

HostsSpec == HostsInit /\ [][HostsNext]_vars

\* q2 is q1 with its head removed or with one frame added at the end.
HeadOffOrOneMore(q1, q2) ==
    \/ q1 # <<>> /\ q2 = Tail(q1)
    \/ Len(q2) = Len(q1) + 1 /\ SubSeq(q2, 1, Len(q1)) = q1

\* C20: backpressure never drops frames, in both hosts.  A queue only ever
\* loses its head (to a retrieval) or gains a frame at its end; the frame of a
\* generation call that succeeds is inserted in the same step or is held by
\* the producer waiting on the full queue; and a waiting producer keeps its
\* frame until it has inserted it.
C20_NoFrameDropped ==
    [][/\ (queue' # queue) => HeadOffOrOneMore(queue, queue')
       /\ (pc \in {"generating", "fallback"} /\ calls'[Len(calls)].result = "ok") =>
             \/ /\ queue' # <<>>
                /\ queue' = Append(queue, queue'[Len(queue')])
                /\ queue'[Len(queue')].image = Len(calls)
             \/ /\ Full
                /\ queue' = queue
                /\ pc' = "putting"
                /\ image'.image = Len(calls)
       /\ (pc = "putting") =>
             \/ pc' = "putting" /\ image' = image
             \/ queue' = Append(queue, image)
       /\ \A q \in 1..Len(tqueues) :
             (tqueues'[q] # tqueues[q]) => HeadOffOrOneMore(tqueues[q], tqueues'[q])
       /\ \A w \in 1..Len(workers) :
             (workers[w].pc = "generating" /\ workers'[w].pc # "generating") =>
                LET f == [prompt |-> Item(workers[w].k - 1), image |-> workers[w].k]
                IN \/ tqueues'[tsession] = Append(tqueues[tsession], f)
                   \/ /\ QueueFull(tsession)
                      /\ tqueues' = tqueues
                      /\ workers'[w].pc = "putting"
                      /\ workers'[w].frame = f
                   \/ tqueues'[tsession] = Append(tqueues[tsession], ErrorFrame)
                   \/ workers'[w].pc = "errput" /\ tqueues' = tqueues
       /\ \A w \in 1..Len(workers) :
             (workers[w].pc = "putting") =>
                \/ workers'[w] = workers[w]
                \/ tqueues'[workers[w].q] =
                       Append(tqueues[workers[w].q], workers[w].frame)
      ]_vars

\* The worker thread holds a generated frame and waits on the full queue of a
\* session that is running.
C20_Witness ==
    /\ workers # <<>>
    /\ workers[1].pc = "putting"
    /\ workers[1].frame.image >= 1
    /\ ~tevents[1]
    /\ Len(tqueues[1]) = TuiQueueDepth
    /\ tui = "playing"

\* ------------------------------- a session whose fallback calls succeed
\* The producer is started and never stopped, the consumer keeps calling
\* get(), calls made with sequencer prompts fail or succeed at will, and every
\* fallback call returns an image.
ServeNext ==
    \/ Start
    \/ ProducerBegin
    \/ GenerateOk
    \/ GenerateFail
    \/ BackoffDone
    \/ FallbackOk
    \/ PutResume
    \/ Get
    \/ GetResume

\* The event loop runs every ready task, timers fire, the generation client
\* answers every call, and the consumer calls get() again and again.
ServeFairness ==
    /\ WF_vars(ProducerBegin)
    /\ WF_vars(GenerateOk \/ GenerateFail)
    /\ WF_vars(BackoffDone)
    /\ WF_vars(FallbackOk)
    /\ WF_vars(PutResume)
    /\ WF_vars(Get)
    /\ WF_vars(GetResume)

ServeSpec == Init /\ [][ServeNext]_vars /\ ServeFairness

\* The generation calls the iteration in progress can still make.
CallsLeft ==
    IF pc \in {"generating", "backoff"} THEN max_retries - attempt ELSE 0

\* The producer is inside an iteration, and the call log has room for the rest
\* of it and for the iteration after it.
IterationUnderWay ==
    /\ running
    /\ pc \in {"generating", "backoff", "fallback", "putting"}
    /\ Len(calls) + CallsLeft + max_retries + 1 <= MaxCalls

\* C21: the session never stalls on failing prompts: while the producer runs
\* and the consumer keeps removing frames, and fallback calls succeed, every
\* iteration under way ends with a new frame in the queue, whichever of its
\* calls with the sequencer prompt fail.
C21_NeverStalls ==
    \A n \in 0..MaxCalls :
        (IterationUnderWay /\ Len(putLog) = n) ~> (Len(putLog) > n)

\* A frame of the fallback call was enqueued after both attempts with the
\* sequencer prompt failed, and the producer is in its next iteration.
C21_Witness ==
    /\ running
    /\ pc = "generating"
    /\ Len(putLog) = 1
    /\ putLog[1].prompt = FallbackLabel
    /\ calls[1].result = "fail"
    /\ calls[2].result = "fail"

\* The prompt iterator is finite and a refill at position pos runs out of it.
RunsOut(pos) == iterLen # NoLimit /\ Available(pos, frames_per_cycle) < frames_per_cycle

\* A step in which the producer, running, passes its loop head and issues the
\* first call of an iteration.
IterationStarts ==
    /\ running
    /\ pc \in {"created", "generating", "fallback", "putting", "pause"}
    /\ pc' = "generating"
    /\ Len(calls') = Len(calls) + 1

\* C23: when the prompt sequencer is exhausted the producer neither raises nor
\* terminates: a refill that runs out of prompts puts the prompt
\* "abstract colorful patterns" after the prompts it could still draw, the
\* iteration goes on to a generation call with a prompt of that buffer, and
\* with the sequencer exhausted the producer task of a running queue has not
\* ended.
C23_ExhaustedSequencerFallback ==
    /\ [][(IterationStarts /\ NeedsRefill /\ RunsOut(iterPos))
            => /\ prompt_buffer' =
                    Append([i \in 1..Available(iterPos, frames_per_cycle) |->
                                Item(iterPos + i - 1)],
                           ExhaustedPrompt)
               /\ prompt' \in {prompt_buffer'[i] : i \in DOMAIN prompt_buffer'}
               /\ calls'[Len(calls')].prompt = prompt'
          ]_vars
    /\ []((running /\ iterLen # NoLimit /\ iterPos >= iterLen)
            => pc \notin {"done", "raised"})

\* A frame generated from the prompt "abstract colorful patterns" was enqueued
\* and the producer went on to its next iteration.
C23_Witness ==
    /\ iterLen # NoLimit
    /\ \E i \in DOMAIN putLog : putLog[i].prompt = ExhaustedPrompt
    /\ running
    /\ pc = "generating"

\* C30: after every refill the prompt buffer holds exactly frames_per_cycle
\* prompts, also once the sequencer has run out.
C30_BufferHoldsCycle ==
    cycle_count > 0 => Len(prompt_buffer) = frames_per_cycle

\* C22: retry delays follow 2^attempt seconds.  In one call of
\* _generate_with_retry the i-th backoff sleep follows failed attempt i - 1 and
\* lasts 2^(i-1) seconds; attempt k is issued after exactly k sleeps; no sleep
\* follows the final attempt, so the fallback call is made after
\* max_retries - 1 sleeps; with the default max_retries = 2 the only sleep
\* lasts 1 second.
C22_BackoffSchedule ==
    caller = "direct" =>
        /\ \A i \in DOMAIN slept :
              slept[i].attempt = i - 1 /\ slept[i].seconds = 2 ^ (i - 1)
        /\ Len(slept) = IF pc = "backoff" THEN attempt + 1 ELSE attempt
        /\ Len(slept) <= max_retries - 1
        /\ (pc = "fallback") => Len(slept) = max_retries - 1
        /\ (max_retries = DefaultMaxRetries /\ slept # <<>>) =>
              slept = <<[attempt |-> 0, seconds |-> 1]>>

\* A call with three attempts slept 1 and 2 seconds and is in its fallback
\* call.
C22_Witness ==
    /\ caller = "direct"
    /\ max_retries = 3
    /\ pc = "fallback"
    /\ slept = <<[attempt |-> 0, seconds |-> 1], [attempt |-> 1, seconds |-> 2]>>

\* C24: every frame is consumed at most once, in both hosts.  ImageQueue: the
\* frames get() returned are pairwise different frames, each was inserted by
\* the producer from a generation call that succeeded, and none of them is
\* still queued.  TUI: a frame that becomes the current frame was the head of
\* a queue and is removed in the same step; a generated frame still queued is
\* not the frame shown and is queued once; and a queue grows only by the frame
\* a worker hands to put.
C24_ConsumedAtMostOnce ==
    /\ [](/\ \A i, j \in DOMAIN delivered : i # j => delivered[i] # delivered[j]
          /\ \A i \in DOMAIN delivered :
                /\ \E j \in DOMAIN putLog : putLog[j] = delivered[i]
                /\ \A j \in DOMAIN queue : queue[j] # delivered[i]
                /\ delivered[i].image \in DOMAIN calls
                /\ calls[delivered[i].image].result = "ok"
          /\ \A q \in 1..Len(tqueues) : \A i \in DOMAIN tqueues[q] :
                tqueues[q][i] # ErrorFrame =>
                   /\ tqueues[q][i] # current_frame
                   /\ \A j \in DOMAIN tqueues[q] : j # i => tqueues[q][j] # tqueues[q][i])
    /\ [][/\ (current_frame' # current_frame) =>
                \E q \in 1..Len(tqueues) :
                   /\ tqueues[q] # <<>>
                   /\ current_frame' = Head(tqueues[q])
                   /\ tqueues' = [tqueues EXCEPT ![q] = Tail(@)]
          /\ \A q \in 1..Len(tqueues) :
                (Len(tqueues'[q]) > Len(tqueues[q])) =>
                   \E w \in 1..Len(workers) :
                      /\ workers[w].pc \in {"generating", "putting", "errput"}
                      /\ workers'[w].pc = "test"
                      /\ tqueues'[q] = Append(tqueues[q], tqueues'[q][Len(tqueues'[q])])
                      /\ tqueues'[q][Len(tqueues'[q])] \in
                            IF workers[w].pc = "generating"
                            THEN {[prompt |-> Item(workers[w].k - 1), image |-> workers[w].k],
                                  ErrorFrame}
                            ELSE {workers[w].frame}
         ]_vars

\* Two frames of the same prompt were returned by get() and a third one is
\* queued.
C24_Witness ==
    /\ Len(delivered) = 2
    /\ delivered[1].prompt = delivered[2].prompt
    /\ delivered[1].image # delivered[2].image
    /\ queue # <<>>
    /\ queue[1].prompt = delivered[1].prompt

\* ------------------------------------------------------ prompt_evolution.py
\* The most next() calls made on one sequencer.
MaxNext == 12

\* random.choice draws from the first MaxChoice entries of a list.
MaxChoice == 2

\* JOURNEYS: each template is the sequence of its literal pieces and its
\* replacement fields.
JOURNEYS ==
    [abstract |-> <<
        <<"geometric ", "{color}", " shapes flowing smoothly">>,
        <<"swirling ", "{color}", " and ", "{color2}", " patterns">>,
        <<"abstract ", "{color}", " waves in motion">>,
        <<"crystalline ", "{color}", " structures forming">>,
        <<"fluid ", "{color}", " ribbons dancing">>,
        <<"scattered ", "{color}", " particles coalescing">>,
        <<"radiating ", "{color}", " energy patterns">>,
        <<"interlocking ", "{color}", " geometric forms">>,
        <<"flowing ", "{color}", " liquid streams">>,
        <<"dynamic ", "{color}", " and ", "{color2}", " composition">>
     >>,
     nature |-> <<
        <<"{element}", " in ", "{color}", " light">>,
        <<"organic ", "{element}", " patterns growing">>,
        <<"{element}", " flowing like ", "{color}", " water">>,
        <<"ethereal ", "{color}", " ", "{element}", " swirling">>,
        <<"dreamy ", "{element}", " in ", "{color}", " mist">>,
        <<"{element}", " blooming with ", "{color}", " energy">>,
        <<"wild ", "{color}", " ", "{element}", " dancing">>,
        <<"serene ", "{element}", " in ", "{color}", " atmosphere">>
     >>,
     cosmic |-> <<
        <<"{color}", " nebula swirling in space">>,
        <<"cosmic ", "{color}", " energy flowing">>,
        <<"stellar ", "{color}", " and ", "{color2}", " clouds">>,
        <<"galactic ", "{color}", " vortex spinning">>,
        <<"celestial ", "{color}", " patterns forming">>,
        <<"astral ", "{color}", " waves rippling">>,
        <<"interstellar ", "{color}", " matter dispersing">>,
        <<"cosmic ", "{color2}", " dust in ", "{color}", " void">>
     >>,
     liquid |-> <<
        <<"{color}", " paint swirling in water">>,
        <<"liquid ", "{color}", " and ", "{color2}", " mixing">>,
        <<"flowing ", "{color}", " ink dispersing">>,
        <<"{color}", " liquid marble patterns">>,
        <<"viscous ", "{color}", " fluid in motion">>,
        <<"aquatic ", "{color}", " and ", "{color2}", " streams">>,
        <<"molten ", "{color}", " material flowing">>,
        <<"fluid ", "{color}", " dynamics in motion">>
     >>]

COLOR_PALETTE ==
    <<"blue", "purple", "orange", "red", "green", "turquoise", "magenta", "cyan", "amber", "violet", "crimson", "emerald", "golden", "silver", "coral", "indigo", "rose", "teal">>

NATURE_ELEMENTS ==
    <<"leaves", "water", "fire", "clouds", "mountains", "flowers", "trees", "waves", "wind", "rain", "lightning", "mist">>

\* The value None of an optional argument.
None == "<None>"

\* The journey arguments tried: the four themes and a name that is none.
Journeys == {"abstract", "nature", "cosmic", "liquid", "bogus"}

\* The start_prompt arguments tried.
StartPrompts == {None, "", "a red fox"}

\* Truth value of an optional string: None and "" are false.
Truthy(s) == s # None /\ s # ""

\* One replacement field filled in, or a literal piece as it is.
Field(tok, color, color2, element) ==
    IF tok = "{color}" THEN color
    ELSE IF tok = "{color2}" THEN color2
    ELSE IF tok = "{element}" THEN element
    ELSE tok

\* template.format(color=..., color2=..., element=...).
RECURSIVE Format(_, _, _, _)
Format(template, color, color2, element) ==
    IF template = <<>>
    THEN ""
    ELSE Field(Head(template), color, color2, element)
            \o Format(Tail(template), color, color2, element)

\* A template cursor that stays on the last template of the list.
TemplateStuck(journey, i) ==
    JOURNEYS[journey][Min(i + 1, Len(JOURNEYS[journey]))]

\* The i-th template (0-based) drawn from cycle(JOURNEYS[journey]).
TemplateAt(journey, i) ==
    JOURNEYS[journey][(i % Len(JOURNEYS[journey])) + 1]

\* Everything but the sequencer.
restVars == <<queueVars, producerLocals, configVars, slept, tsettings, clientVars, pc,
              image, calls, running, hostVars>>

\* get_evolver was called: a generator object exists and none of its body has
\* run.
EvolverInit ==
    /\ InitCommon
    /\ CliOff
    /\ TuiOff
    /\ queue_depth = CliQueueDepth
    /\ frames_per_cycle = 1
    /\ iterLen = NoLimit
    /\ caller = "none"
    /\ pc = "idle"
    /\ prompt = ""
    /\ seed = NoSeed
    /\ max_retries = DefaultMaxRetries
    /\ \E j \in Journeys, s \in StartPrompts, c \in BOOLEAN :
          evolver = [pc |-> "created", journey |-> j, start_prompt |-> s, custom |-> c,
                     n |-> 0, idx |-> 0, out |-> "", err |-> ""]

\* The loop of PromptEvolver.evolve yields the prompt made from the next
\* template and three random choices.
YieldTemplate ==
    \E c, c2, e \in 1..MaxChoice :
        evolver' = [evolver EXCEPT
                       !.pc = "cycling",
                       !.n = @ + 1,
                       !.idx = @ + 1,
                       !.out = Format(TemplateAt(evolver.journey, evolver.idx),
                                      COLOR_PALETTE[c], COLOR_PALETTE[c2],
                                      NATURE_ELEMENTS[e])]

\* The first next(): the body of get_evolver runs up to its first yield, or
\* PromptEvolver.__init__ raises ValueError and the generator is finished.
NextFirst ==
    /\ evolver.pc = "created"
    /\ evolver.n < MaxNext
    /\ IF evolver.custom /\ Truthy(evolver.start_prompt)
       THEN evolver' = [evolver EXCEPT !.pc = "fixed", !.n = @ + 1,
                                       !.out = evolver.start_prompt]
       ELSE IF evolver.journey \notin DOMAIN JOURNEYS
       THEN evolver' = [evolver EXCEPT !.pc = "finished", !.n = @ + 1,
                                       !.err = "ValueError"]
       ELSE IF Truthy(evolver.start_prompt)
       THEN evolver' = [evolver EXCEPT !.pc = "start", !.n = @ + 1,
                                       !.out = evolver.start_prompt]
       ELSE YieldTemplate
    /\ UNCHANGED restVars

\* A fixed sequencer that moves on to the templates after its first prompt.
NextFixedEvolves ==
    /\ evolver.pc = "fixed"
    /\ evolver.n < MaxNext
    /\ evolver.journey \in DOMAIN JOURNEYS
    /\ YieldTemplate
    /\ UNCHANGED restVars

\* next() on the fixed sequencer: the while True loop yields start_prompt.
NextFixed ==
    /\ evolver.pc = "fixed"
    /\ evolver.n < MaxNext
    /\ evolver' = [evolver EXCEPT !.n = @ + 1, !.out = evolver.start_prompt]
    /\ UNCHANGED restVars

\* next() on the evolving sequencer, suspended after the start prompt or in
\* the template loop.
NextEvolve ==
    /\ evolver.pc \in {"start", "cycling"}
    /\ evolver.n < MaxNext
    /\ YieldTemplate
    /\ UNCHANGED restVars

\* next() on a generator that ended with an exception raises StopIteration.
NextFinished ==
    /\ evolver.pc = "finished"
    /\ evolver.n < MaxNext
    /\ evolver' = [evolver EXCEPT !.n = @ + 1, !.err = "StopIteration"]
    /\ UNCHANGED restVars

EvolverNext == NextFirst \/ NextFixed \/ NextEvolve \/ NextFinished

EvolverSpec == EvolverInit /\ [][EvolverNext]_vars

\* C25: in fixed-prompt mode every next() returns the configured string and
\* the templates are never used: with custom set and a start_prompt that is
\* neither None nor empty, after any number of calls the value returned is
\* start_prompt, no template was drawn and nothing was raised, whatever the
\* journey.
C25_FixedPrompt ==
    (evolver.custom /\ evolver.start_prompt \notin {None, ""} /\ evolver.n > 0) =>
        /\ evolver.out = evolver.start_prompt
        /\ evolver.idx = 0
        /\ evolver.err = ""
        /\ evolver.pc = "fixed"

\* The fixed sequencer has answered every call allowed, under a journey name
\* that is no theme.
C25_Witness ==
    /\ evolver.custom
    /\ evolver.start_prompt = "a red fox"
    /\ evolver.journey = "bogus"
    /\ evolver.n >= 12
    /\ evolver.out = "a red fox"

\* The prompts template t can be formatted to with the choices the model draws.
Instances(t) ==
    {Format(t, COLOR_PALETTE[c], COLOR_PALETTE[c2], NATURE_ELEMENTS[e]) :
        c \in 1..MaxChoice, c2 \in 1..MaxChoice, e \in 1..MaxChoice}

\* The sequencer evolves: it is not in fixed mode and its journey is a theme.
Evolving ==
    /\ evolver.pc # "none"
    /\ ~(evolver.custom /\ evolver.start_prompt \notin {None, ""})
    /\ evolver.journey \in {"abstract", "nature", "cosmic", "liquid"}

\* The number of templates of the journey of the sequencer.
NumTemplates == Len(JOURNEYS[evolver.journey])

\* C26: in evolving mode a supplied start prompt is returned exactly once, as
\* the first prompt, and then the templates of the theme are cycled in their
\* order: the k-th prompt after the start prompt (k = 0, 1, ...) is an
\* instance of template k mod number-of-templates, and no later prompt is the
\* start prompt.  Without a start prompt the cycle starts with the first
\* next().
C26_StartOnceThenCycle ==
    (Evolving /\ evolver.n > 0) =>
        IF evolver.start_prompt \notin {None, ""}
        THEN /\ (evolver.n = 1) => (evolver.out = evolver.start_prompt /\ evolver.idx = 0)
             /\ (evolver.n > 1) =>
                   /\ evolver.out \in
                         Instances(JOURNEYS[evolver.journey][((evolver.n - 2) % NumTemplates) + 1])
                   /\ evolver.out # evolver.start_prompt
        ELSE evolver.out \in
                Instances(JOURNEYS[evolver.journey][((evolver.n - 1) % NumTemplates) + 1])

\* After the start prompt and the ten templates of "abstract" the cycle is
\* back at the first template.
C26_Witness ==
    /\ evolver.journey = "abstract"
    /\ evolver.start_prompt = "a red fox"
    /\ ~evolver.custom
    /\ evolver.n = 12
    /\ evolver.out \in Instances(JOURNEYS["abstract"][1])

\* C27 (as claimed): no next() on a sequencer raises.
C27_NextNeverFails == evolver.err = ""

\* The two things a pass of the display loop can do.
EmptyTick ==
    /\ queue = <<>>
    /\ shown' = GeneratingPanel
    /\ queue' = queue
    /\ delivered' = delivered

FrameTick ==
    /\ queue # <<>>
    /\ shown' = Head(queue)
    /\ queue' = Tail(queue)
    /\ delivered' = Append(delivered, Head(queue))

ReadQueue == IF tget.pc = "waiting" THEN tget.q ELSE tsession

\* C29: the playback screen keeps the last shown frame.  While it is open
\* there is a current frame; a tick that obtains a frame (the head of the
\* queue, which it removes) makes it the current frame; every other step,
\* a tick that finds no frame and a tick while paused included, leaves the
\* current frame as it is.
C29_KeepsLastFrame ==
    /\ [](tui = "playing" => current_frame # NoFrame)
    /\ [][(tui = "playing" /\ tui' = "playing") =>
             /\ (tqueues[ReadQueue] # <<>> /\ tqueues'[ReadQueue] = Tail(tqueues[ReadQueue]))
                   => current_frame' = Head(tqueues[ReadQueue])
             /\ (Len(tqueues'[ReadQueue]) >= Len(tqueues[ReadQueue]))
                   => current_frame' = current_frame
             /\ is_paused => (current_frame' = current_frame /\ tget' = tget)
         ]_vars

\* The playback screen shows the second frame generated while a tick waits on
\* the empty queue.
C29_Witness ==
    /\ tui = "playing"
    /\ current_frame.image = 2
    /\ tget.pc = "waiting"
    /\ tqueues[tget.q] = <<>>

StoppedAfterStart == ~running /\ stopPc # "idle" /\ pc # "idle"

\* C32: after stop() on a running ImageQueue the producer begins no new
\* iteration.  From then on no prompt is drawn from the sequencer and the
\* prompt buffer stays as it is; every generation call still made is a retry
\* or the fallback call of the iteration in progress; at most one frame is
\* inserted, after which the producer has ended, and an ended producer stays
\* ended; and a producer task that had not run yet ends without any
\* generation call.
C32_NoNewIterationAfterStop ==
    /\ [](pc = "created" => calls = <<>>)
    /\ [][StoppedAfterStart =>
             /\ ~running'
             /\ iterPos' = iterPos
             /\ prompt_buffer' = prompt_buffer
             /\ (Len(calls') > Len(calls)) =>
                   /\ pc \in {"generating", "backoff"}
                   /\ Len(calls') = Len(calls) + 1
                   /\ (calls'[Len(calls')].attempt > 0 \/ calls'[Len(calls')].fallback)
             /\ (putLog' # putLog) =>
                   /\ Len(putLog') = Len(putLog) + 1
                   /\ putLog'[Len(putLog')].image = Len(calls)
                   /\ pc \in {"generating", "fallback", "putting"}
                   /\ pc' = "done"
             /\ (pc = "created") => (pc' \in {"created", "done"} /\ calls' = calls)
             /\ (pc = "done") => (pc' = "done" /\ calls' = calls /\ putLog' = putLog)
         ]_vars

\* A stopped producer has ended after inserting the frame of its fallback
\* call, and stop() has returned.
C32_Witness ==
    /\ StoppedAfterStart
    /\ pc = "done"
    /\ stopPc = "returned"
    /\ calls # <<>>
    /\ calls[Len(calls)].fallback
    /\ putLog # <<>>
    /\ putLog[Len(putLog)].image = Len(calls)

\* C33: the CLI display loop never suspends inside queue.get().  The display
\* task is never waiting in get(); every removal from the queue is made by a
\* pass of the display loop, on a queue it found non-empty in the same step,
\* and returns the head at once; no other get() is ever under way.
C33_DisplayGetImmediate ==
    /\ [](displayPc # "getting")
    /\ [](consumerPc = "idle")
    /\ [][(Len(queue') < Len(queue)) =>
             /\ displayPc \in {"created", "sleeping"}
             /\ cliPc = "displaying"
             /\ displayPc' = "sleeping"
             /\ queue' = Tail(queue)
             /\ delivered' = Append(delivered, Head(queue))
         ]_vars

\* The display loop has taken a frame while the producer is suspended in put
\* on the full queue.
C33_Witness ==
    /\ cliPc = "displaying"
    /\ displayPc = "sleeping"
    /\ delivered # <<>>
    /\ pc = "putting"
    /\ Len(queue) = queue_depth

\* The calls of the log that returned an image.
OkCalls == {c \in DOMAIN calls : calls[c].result = "ok"}

\* C34: a producer iteration that fails changes neither the queue nor the
\* cursor.  The step in which the fallback call raises leaves the queue, the
\* insertion log and the cursor as they are and the producer holds no frame;
\* every frame ever inserted or held for insertion is the image of a call that
\* succeeded, one frame per such call; and the cursor moves only in a step
\* that inserts a frame, by one position in the prompt buffer.
C34_FailedIterationNoEffect ==
    /\ [](/\ \A i \in DOMAIN putLog : putLog[i].image \in OkCalls
          /\ Len(putLog) + (IF pc = "putting" THEN 1 ELSE 0) = Cardinality(OkCalls)
          /\ (pc = "pause") => (image = NoFrame /\ calls[Len(calls)].result = "fail"
                                   /\ calls[Len(calls)].fallback))
    /\ [][/\ (pc = "fallback" /\ calls'[Len(calls)].result = "fail") =>
                /\ pc' = "pause"
                /\ queue' = queue
                /\ putLog' = putLog
                /\ frame_index' = frame_index
          /\ (frame_index' # frame_index) =>
                /\ putLog' = Append(putLog, putLog'[Len(putLog')])
                /\ frame_index' = (frame_index + 1) % Len(prompt_buffer)
          /\ (pc = "pause") => (putLog' = putLog /\ frame_index' = frame_index)
         ]_vars

\* After one frame was inserted and the cursor moved to 1, the next iteration
\* failed: the producer sleeps in its handler with the cursor still at 1.
C34_Witness ==
    /\ caller = "producer"
    /\ pc = "pause"
    /\ Len(putLog) = 1
    /\ frame_index = 1
    /\ calls[Len(calls)].result = "fail"

\* C35: the cursor stays inside the prompt buffer.  When an iteration
\* completes (a frame is inserted) the cursor is set to a value from 0 to the
\* length of the buffer of that iteration minus one; the cursor is never
\* negative; and every iteration that starts has a non-empty buffer and takes
\* its prompt at position cursor mod length, which is inside the buffer, also
\* when the refill just made is shorter than the buffer before.
C35_CursorInsideBuffer ==
    /\ [](frame_index >= 0)
    /\ [](pc \in {"generating", "backoff", "fallback", "putting"} => Len(prompt_buffer) >= 1)
    /\ [][/\ (putLog' # putLog) =>
                /\ frame_index' \in 0..(Len(prompt_buffer) - 1)
                /\ frame_index' = (frame_index + 1) % Len(prompt_buffer)
          /\ IterationStarts =>
                /\ Len(prompt_buffer') >= 1
                /\ (frame_index' % Len(prompt_buffer')) + 1 \in DOMAIN prompt_buffer'
                /\ prompt' = prompt_buffer'[(frame_index' % Len(prompt_buffer')) + 1]
         ]_vars

\* The sequencer ran out: the refill made a buffer of one prompt while the
\* cursor, set by the iteration before, stands at a position beyond it.
C35_Witness ==
    /\ caller = "producer"
    /\ pc = "generating"
    /\ frames_per_cycle > 1
    /\ Len(prompt_buffer) = 1
    /\ frame_index >= 1
    /\ prompt = ExhaustedPrompt

\* C36: one invocation of _generate_with_retry makes between 1 and
\* max_retries + 1 generation calls and at most max_retries - 1 backoff
\* sleeps, and then returns or raises.  At every moment the calls made are at
\* most max_retries + 1, of which at most max_retries with the selected prompt
\* and at most one fallback, and the sleeps at most max_retries - 1; an
\* invocation under way or ended has made at least one call; and an
\* invocation under way ends.
C36_BoundedCallsAndSleeps ==
    /\ [](caller = "direct" =>
            /\ Len(calls) <= max_retries + 1
            /\ Cardinality({c \in DOMAIN calls : ~calls[c].fallback}) <= max_retries
            /\ Cardinality({c \in DOMAIN calls : calls[c].fallback}) <= 1
            /\ Len(slept) <= max_retries - 1
            /\ (pc # "ready") => Len(calls) >= 1
            /\ pc \in {"ready", "generating", "backoff", "fallback", "returned", "raised"})
    /\ (caller = "direct" /\ pc \in {"generating", "backoff", "fallback"})
          ~> (pc \in {"returned", "raised"})

\* An invocation with three attempts raised after four calls and two sleeps.
C36_Witness ==
    /\ caller = "direct"
    /\ max_retries = 3
    /\ pc = "raised"
    /\ Len(calls) = 4
    /\ Len(slept) = 2

\* C37: while the playback screen is paused nothing is consumed.  In every
\* step taken while it is paused the current frame stays, no get_next_frame
\* is begun, and each queue is left as it is or gains one frame at its end
\* while it has room, so the frames inserted stay queued in insertion order;
\* a worker that holds a generated frame for a full queue keeps holding it;
\* and the first frame shown after resume, like every frame shown, is the
\* head of the queue, removed in that step.
C37_PausedConsumesNothing ==
    /\ [](is_paused => (tui # "loading" /\ tget.pc = "idle"))
    /\ [][/\ (tui = "playing" /\ is_paused) =>
                /\ current_frame' = current_frame
                /\ tget' = tget
                /\ \A q \in 1..Len(tqueues) :
                      \/ tqueues'[q] = tqueues[q]
                      \/ /\ Len(tqueues[q]) < TuiQueueDepth
                         /\ SubSeq(tqueues'[q], 1, Len(tqueues[q])) = tqueues[q]
                         /\ Len(tqueues'[q]) = Len(tqueues[q]) + 1
          /\ \A w \in 1..Len(workers) :
                (workers[w].pc = "putting" /\ QueueFull(workers[w].q)) =>
                   workers'[w] = workers[w]
          /\ (tui = "playing" /\ current_frame' # current_frame) =>
                /\ ~is_paused
                /\ tqueues[ReadQueue] # <<>>
                /\ current_frame' = Head(tqueues[ReadQueue])
                /\ tqueues'[ReadQueue] = Tail(tqueues[ReadQueue])
         ]_vars

\* Paused on the first frame: the queue has filled with the frames of calls 2
\* to 4 in order and the worker is blocked in put with the frame of call 5.
C37_Witness ==
    /\ tui = "playing"
    /\ is_paused
    /\ current_frame.image = 1
    /\ tsession = 1
    /\ Len(tqueues[1]) = TuiQueueDepth
    /\ \A i \in 1..TuiQueueDepth : tqueues[1][i].image = i + 1
    /\ workers[1].pc = "putting"
    /\ workers[1].frame.image = TuiQueueDepth + 2

\* ------------------------------------------------------ TUI settings
\* The options of the settings screens the user picks from.
RatioOptions == {"1:1", "16:9"}

ThemeOptions == {"abstract", "nature"}

\* Everything but the settings.
appVars == <<tuiVars, queueOnlyVars>>

\* ConfigRatioScreen.handle_selection, reached from the main menu.
SelectRatio ==
    /\ tui = "menu"
    /\ \E r \in RatioOptions :
          tsettings' = [tsettings EXCEPT !.config.aspect_ratio = r]
    /\ UNCHANGED appVars

\* ConfigQualityScreen.handle_selection.
SelectQuality ==
    /\ tui = "menu"
    /\ \E f \in BOOLEAN :
          tsettings' = [tsettings EXCEPT !.config.fast = f]
    /\ UNCHANGED appVars

\* ConfigThemeScreen.handle_selection.
SelectJourney ==
    /\ tui = "menu"
    /\ \E j \in ThemeOptions :
          tsettings' = [tsettings EXCEPT !.config.journey = j]
    /\ UNCHANGED appVars

\* The app with its settings screens; the user does not pause and the
\* generation service does not fail.
SettingsNext ==
    \/ SelectRatio
    \/ SelectQuality
    \/ SelectJourney
    \/ DreamStart
    \/ GetNextFrameCall
    \/ GetNextFrameResume
    \/ GetNextFrameTimeout
    \/ Back
    \/ JoinDone
    \/ JoinTimeout
    \/ \E w \in 1..Len(workers) : WorkerLoop(w)
    \/ \E w \in 1..Len(workers) : WorkerGenerateOk(w)
    \/ \E w \in 1..Len(workers) : WorkerPutResume(w)

SettingsSpec == TuiInit /\ [][SettingsNext]_vars

\* C38 (as claimed): every dream session generates with the settings
\* configured when it was started: while a session is on screen, the image
\* size and the prompt sequencer in use are the ones the current
\* configuration gives.
C38_SessionUsesCurrentConfig ==
    (tsession >= 1 /\ tui \in {"loading", "playing"}) =>
        tsettings.used = InitializeGeneration(tsettings.config)
====
